---- MODULE Spec2Model ----
(***************************************************************************)
(* A model of the emailmanager pipeline: the rule engine, the Stage-1      *)
(* classifier, the marker store, the remote (Notion) upserts and the run   *)
(* of EmailWatcher.check_and_process.                                      *)
(*                                                                         *)
(* Texts.  A Python string is modelled as a sequence of fragments, each a  *)
(* TLA+ string; "ielts@britishcouncil.org" is <<"ielts", "@",              *)
(* "britishcouncil", ".org">>.  `kw in text` is Contains(kw, text): some   *)
(* fragment equals kw or is listed in SubstringPairs as containing it.     *)
(* str.lower() is Lower: the fragments written with capitals in the        *)
(* vocabulary are mapped to their lower-case spelling.  Non-ASCII literals *)
(* of the source are written as ASCII stand-ins prefixed "zh_".            *)
(***************************************************************************)
EXTENDS Integers, Sequences, FiniteSets, TLC

VARIABLES
    re_email,      \* rule engine: the email handed to _check_sender_priority
    re_result,     \* rule engine: its return value <<category, importance>>, or <<"pending", 0>>
    markers,       \* the processed_emails table: a set of rows
    mk_hist,       \* the mark_processed calls made so far, oldest first
    s1_emails,     \* Stage-1: the list handed to stage1_classify_batch
    s1_start,      \* Stage-1: batch_start of the next sub-batch, or -1 after the return
    s1_log,        \* Stage-1: the LLM outcome of each sub-batch so far
    unread,        \* mailbox: the email ids (1..NMsg) that are still unread
    msg_ids,       \* mailbox: the Message-ID header of each message
    msg_from,      \* mailbox: the From header of each message
    papers,        \* remote store: the pages of the paper database, oldest first
    reviews,       \* remote store: the pages of the review database
    bills,         \* remote store: the pages of the billing database
    summaries,     \* remote store: the pages of the message-summary database
    local_items,   \* billing.db: the billing_items rows
    local_records, \* billing.db: the billing_records rows
    llm_s1,        \* the Stage-1 category the LLM gives each message
    llm_s2,        \* the Stage-2 answer the LLM gave each message, "unasked" before
    llm_bill,      \* the answer the LLM gave to the billing parse, once asked
    run,           \* check_and_process: its position and local variables
    run_no,        \* number of check_and_process calls started
    crashes,       \* number of times the process was killed during a run
    trace,         \* history: what the current run did, what a killed run had done
    fn_in,         \* function harness: the arguments of the call
    fn_out         \* function harness: what the call returned, <<"pending">> before

\* Python's None where a string is expected, and where an integer is expected
\* (TLC compares only values of one type; no importance of the program is 0).
None == "None"
NoneInt == 0
\* A key that a dict does not have.
Absent == "absent"

(***************************************************************************)
(* config/categories.py                                                    *)
(***************************************************************************)
\* HIGH_PRIORITY_SENDERS, in the dict's insertion order (the order .items()
\* iterates in).
HIGH_PRIORITY_SENDERS == <<
    [sender |-> "ielts",                       category |-> "EXAM",    importance |-> 5],
    [sender |-> "britishcouncil",              category |-> "EXAM",    importance |-> 5],
    [sender |-> "ets.org",                     category |-> "EXAM",    importance |-> 5],
    [sender |-> "toefl",                       category |-> "EXAM",    importance |-> 5],
    [sender |-> "gre",                         category |-> "EXAM",    importance |-> 5],
    [sender |-> "candidates.cambridgeenglish", category |-> "EXAM",    importance |-> 5],
    [sender |-> "zh_zhaoshang_yinhang",        category |-> "BILLING", importance |-> 4],
    [sender |-> "cmbchina",                    category |-> "BILLING", importance |-> 4],
    [sender |-> "95555",                       category |-> "BILLING", importance |-> 4],
    [sender |-> "zh_gongshang_yinhang",        category |-> "BILLING", importance |-> 4],
    [sender |-> "icbc",                        category |-> "BILLING", importance |-> 4],
    [sender |-> "zh_jianshe_yinhang",          category |-> "BILLING", importance |-> 4],
    [sender |-> "ccb.com",                     category |-> "BILLING", importance |-> 4],
    [sender |-> "zh_jiaotong_yinhang",         category |-> "BILLING", importance |-> 4],
    [sender |-> "bankcomm",                    category |-> "BILLING", importance |-> 4],
    [sender |-> "zh_zhongguo_yinhang",         category |-> "BILLING", importance |-> 4],
    [sender |-> "boc.cn",                      category |-> "BILLING", importance |-> 4],
    [sender |-> "citibank",                    category |-> "BILLING", importance |-> 4],
    [sender |-> "citi.com",                    category |-> "BILLING", importance |-> 4] >>

TRASH_SENDERS == <<
    "autodl", "autoDL", "zh_aliyun", "aliyun", "zh_tengxunyun", "tencent cloud",
    "huawei cloud", "zh_huaweiyun", "aws", "azure",
    "reprints@", "copyright.com", "webshop",
    "noreply", "no-reply", "newsletter", "marketing", "promotion",
    "advertising", "mailer-daemon", "postmaster",
    "mdpi", "hindawi", "frontiers", "scirp" >>

(***************************************************************************)
(* Texts                                                                   *)
(***************************************************************************)
\* <<kw, f>>: the fragment f of the vocabulary contains kw as a substring.
SubstringPairs ==
    { <<"reprint", "reprints@">>, <<"reprint", "reprints">>,
      <<"score", "scores">>, <<"gre", "greetings">>,
      <<"Trash", "Trash/Published">>,
      <<"Paper", "Paper/InProgress">>, <<"Paper", "Paper/Journal">>,
      <<"Paper", "Paper/Conference">>, <<"Review", "Review/Active">>,
      <<"accepted", "accepted with minor revision">>,
      <<"minor revision", "accepted with minor revision">> }

\* str.lower() on one fragment.
LowerFrag(f) ==
    CASE f = "autoDL"  -> "autodl"
      [] f = "IELTS"   -> "ielts"
      [] f = "NoReply" -> "noreply"
      [] f = "Score"   -> "score"
      [] f = "Reprint" -> "reprint"
      [] f = "Major Revision" -> "major revision"
      [] f = "Under Review"   -> "under review"
      [] f = "Invited"        -> "invited"
      [] OTHER         -> f

\* str.lower() on a text.
Lower(text) == [i \in 1..Len(text) |-> LowerFrag(text[i])]

\* Python's `kw in text` (case-sensitive substring test).
Contains(kw, text) ==
    \E i \in 1..Len(text) : text[i] = kw \/ <<kw, text[i]>> \in SubstringPairs

(***************************************************************************)
(* processors/classifier.py: the rule engine                               *)
(***************************************************************************)
exam_keywords ==
    << "ielts", "zh_yasi", "zh_tuofu", "toefl", "gre", "zh_zhunkaozheng",
       "zh_chengji", "score" >>

published_ad_keywords ==
    << "reprint", "order copies", "citation alert", "nearing publication" >>

\* for sender, info in HIGH_PRIORITY_SENDERS.items(): first entry contained
\* in from_addr, from position i on; 0 when there is none.
RECURSIVE FirstHighPriority(_, _)
FirstHighPriority(i, from_addr) ==
    IF i > Len(HIGH_PRIORITY_SENDERS) THEN 0
    ELSE IF Contains(LowerFrag(HIGH_PRIORITY_SENDERS[i].sender), from_addr) THEN i
    ELSE FirstHighPriority(i + 1, from_addr)

\* for sender in TRASH_SENDERS: if sender.lower() in from_addr
RECURSIVE AnyTrashSender(_, _)
AnyTrashSender(i, from_addr) ==
    IF i > Len(TRASH_SENDERS) THEN FALSE
    ELSE IF Contains(LowerFrag(TRASH_SENDERS[i]), from_addr) THEN TRUE
    ELSE AnyTrashSender(i + 1, from_addr)

\* any(kw in subject or kw in from_addr for kw in exam_keywords)
AnyExamKeyword(subject, from_addr) ==
    \E k \in 1..Len(exam_keywords) :
        Contains(exam_keywords[k], subject) \/ Contains(exam_keywords[k], from_addr)

\* any(kw in subject for kw in [...])
AnyPublishedAd(subject) ==
    \E k \in 1..Len(published_ad_keywords) : Contains(published_ad_keywords[k], subject)

\* The rule engine with the deny list consulted before the allow list.
check_sender_priority_denyfirst(email) ==
    LET from_addr == Lower(email.from)
        subject   == Lower(email.subject)
        hp        == FirstHighPriority(1, from_addr)
    IN  IF AnyTrashSender(1, from_addr) THEN <<"TRASH", 1>>
        ELSE IF hp /= 0
             THEN <<HIGH_PRIORITY_SENDERS[hp].category, HIGH_PRIORITY_SENDERS[hp].importance>>
        ELSE IF AnyExamKeyword(subject, from_addr) THEN <<"EXAM", 5>>
        ELSE IF AnyPublishedAd(subject) THEN <<"TRASH", 1>>
        ELSE <<None, NoneInt>>

\* The rule engine without the deny list.
check_sender_priority_nodeny(email) ==
    LET from_addr == Lower(email.from)
        subject   == Lower(email.subject)
        hp        == FirstHighPriority(1, from_addr)
    IN  IF hp /= 0
        THEN <<HIGH_PRIORITY_SENDERS[hp].category, HIGH_PRIORITY_SENDERS[hp].importance>>
        ELSE IF AnyExamKeyword(subject, from_addr) THEN <<"EXAM", 5>>
        ELSE IF AnyPublishedAd(subject) THEN <<"TRASH", 1>>
        ELSE <<None, NoneInt>>

\* EmailClassifier._check_sender_priority
check_sender_priority(email) ==
    LET from_addr == Lower(email.from)
        subject   == Lower(email.subject)
        hp        == FirstHighPriority(1, from_addr)
    IN  IF hp /= 0
        THEN <<HIGH_PRIORITY_SENDERS[hp].category, HIGH_PRIORITY_SENDERS[hp].importance>>
        ELSE IF AnyTrashSender(1, from_addr) THEN <<"TRASH", 1>>
        ELSE IF AnyExamKeyword(subject, from_addr) THEN <<"EXAM", 5>>
        ELSE IF AnyPublishedAd(subject) THEN <<"TRASH", 1>>
        ELSE <<None, NoneInt>>

\* text[:n].  The fragments "a" and "b" are single characters; every other
\* fragment is a word of at most WordLen characters, and the texts built from
\* words stay shorter than every n used, so the cut never falls inside a word.
WordLen == 30
FragLen(f) == IF f \in {"a", "b"} THEN 1 ELSE WordLen

\* len(text)
CharLen(text) ==
    LET words == {i \in 1..Len(text) : FragLen(text[i]) /= 1}
    IN  (Len(text) - Cardinality(words)) + WordLen * Cardinality(words)

Take(text, n) ==
    IF \A i \in 1..Len(text) : FragLen(text[i]) = 1
    THEN SubSeq(text, 1, IF Len(text) < n THEN Len(text) ELSE n)
    ELSE LET fit  == {k \in 0..Len(text) : CharLen(SubSeq(text, 1, k)) <= n}
             kmax == CHOOSE k \in fit : \A j \in fit : j <= k
         IN  SubSeq(text, 1, kmax)

\* A text of n characters: "a" everywhere but "b" at position k.
Chars(n, k) == [i \in 1..n |-> IF i = k THEN "b" ELSE "a"]

(***************************************************************************)
(* core/state.py: the marker store                                         *)
(***************************************************************************)
\* The row mark_processed builds from its arguments.  processed_at (the wall
\* clock) is left out.  c.subject = <<None>> stands for subject=None.
MarkerRow(c) ==
    [ message_id       |-> c.message_id,
      account          |-> c.account,
      subject          |-> IF c.subject = <<None>> \/ c.subject = <<>> THEN <<>>
                           ELSE Take(c.subject, 200),
      stage1_result    |-> c.stage1_result,
      stage2_category  |-> c.stage2_category,
      synced_to_notion |-> IF c.synced THEN 1 ELSE 0,
      marked_read      |-> IF c.marked_read THEN 1 ELSE 0 ]

\* mark_processed with a plain INSERT: an earlier row of the key is kept.
mark_processed_insert(table, c) ==
    IF c.message_id = "" THEN table ELSE table \cup {MarkerRow(c)}

\* mark_processed without the test of the message id.
mark_processed_anyid(table, c) ==
    {r \in table : r.message_id /= c.message_id} \cup {MarkerRow(c)}

\* StateManager.mark_processed: INSERT OR REPLACE on the primary key.
mark_processed(table, c) ==
    IF c.message_id = "" THEN table
    ELSE {r \in table : r.message_id /= c.message_id} \cup {MarkerRow(c)}

\* get_processed_ids that returns the ids of the synced rows only.
get_processed_ids_synced(table) == {r.message_id : r \in {x \in table : x.synced_to_notion = 1}}

\* StateManager.get_processed_ids
get_processed_ids(table) == {r.message_id : r \in table}

\* StateManager.is_processed
is_processed(table, message_id) ==
    IF message_id = "" THEN FALSE ELSE \E r \in table : r.message_id = message_id

(***************************************************************************)
(* processors/classifier.py: extract_json_from_text                        *)
(*                                                                         *)
(* An LLM answer is a sequence of tokens: the JSON punctuation "[", "]",   *)
(* "{", "}", ",", ":", the scalars "num" and "str", whitespace "ws", the   *)
(* code fence "fence" (three backquotes), the word "json", other words.    *)
(***************************************************************************)
SetMin(S) == CHOOSE x \in S : \A y \in S : x <= y
SetMax(S) == CHOOSE x \in S : \A y \in S : y <= x

Fence == "fence"
At(t, i) == IF i \in 1..Len(t) THEN t[i] ELSE "eof"

\* str.strip(): leading and trailing whitespace removed.
strip(text) ==
    LET keep == {i \in 1..Len(text) : text[i] /= "ws"}
    IN  IF keep = {} THEN <<>> ELSE SubSeq(text, SetMin(keep), SetMax(keep))

\* The JSON grammar; each operator returns the position after what it parsed,
\* 0 when the tokens from position i on are not of that form.
RECURSIVE ParseValue(_, _), ParseElements(_, _), ParseMembers(_, _)
ParseValue(t, i) ==
    CASE At(t, i) \in {"num", "str"} -> i + 1
      [] At(t, i) = "[" -> IF At(t, i + 1) = "]" THEN i + 2 ELSE ParseElements(t, i + 1)
      [] At(t, i) = "{" -> IF At(t, i + 1) = "}" THEN i + 2 ELSE ParseMembers(t, i + 1)
      [] OTHER -> 0
ParseElements(t, i) ==
    LET j == ParseValue(t, i)
    IN  IF j = 0 THEN 0
        ELSE IF At(t, j) = "," THEN ParseElements(t, j + 1)
        ELSE IF At(t, j) = "]" THEN j + 1
        ELSE 0
ParseMembers(t, i) ==
    IF At(t, i) = "str" /\ At(t, i + 1) = ":"
    THEN LET j == ParseValue(t, i + 2)
         IN  IF j = 0 THEN 0
             ELSE IF At(t, j) = "," THEN ParseMembers(t, j + 1)
             ELSE IF At(t, j) = "}" THEN j + 1
             ELSE 0
    ELSE 0

\* json.loads: <<"value", v>> with v the value (its tokens without the
\* insignificant whitespace), <<"JSONDecodeError", <<>>>> otherwise.
json_loads(t) ==
    LET c == SelectSeq(t, LAMBDA tok : tok /= "ws")
    IN  IF c /= <<>> /\ ParseValue(c, 1) = Len(c) + 1
        THEN <<"value", c>>
        ELSE <<"JSONDecodeError", <<>>>>

\* re.findall(code_block_pattern, text): the captured groups of
\* the non-overlapping matches, from position `from` on.  After the opening
\* fence only the word json is skipped, then whitespace; any other tag is
\* part of the captured group.
RECURSIVE code_blocks(_, _)
code_blocks(t, from) ==
    LET opens == {i \in from..Len(t) : t[i] = Fence}
    IN  IF opens = {} THEN <<>>
        ELSE LET a      == SetMin(opens)
                 closes == {i \in (a + 1)..Len(t) : t[i] = Fence}
             IN  IF closes = {} THEN <<>>
                 ELSE LET b        == SetMin(closes)
                          afterTag == IF a + 1 < b /\ t[a + 1] = "json" THEN a + 2 ELSE a + 1
                          body     == {i \in afterTag..(b - 1) : t[i] /= "ws"}
                          first    == IF body = {} THEN b ELSE SetMin(body)
                      IN  <<SubSeq(t, first, b - 1)>> \o code_blocks(t, b + 1)

ExtractNone == <<"None", <<>>>>

\* extract_json_from_text returning the last fenced block that parses.
extract_json_from_text_lastblock(text, expect_array) ==
    IF text = <<>> THEN ExtractNone
    ELSE
    LET t      == strip(text)
        whole  == json_loads(t)
        blocks == code_blocks(t, 1)
        parsed == {k \in 1..Len(blocks) : json_loads(strip(blocks[k]))[1] = "value"}
        open   == IF expect_array THEN "[" ELSE "{"
        close  == IF expect_array THEN "]" ELSE "}"
        firsts == {i \in 1..Len(t) : t[i] = open}
        lasts  == {i \in 1..Len(t) : t[i] = close}
    IN  IF whole[1] = "value" THEN whole
        ELSE IF parsed /= {} THEN json_loads(strip(blocks[SetMax(parsed)]))
        ELSE IF firsts /= {} /\ lasts /= {} /\ SetMax(lasts) > SetMin(firsts)
        THEN LET r == json_loads(SubSeq(t, SetMin(firsts), SetMax(lasts)))
             IN  IF r[1] = "value" THEN r ELSE ExtractNone
        ELSE ExtractNone

\* extract_json_from_text(text, expect_array)
extract_json_from_text(text, expect_array) ==
    IF text = <<>> THEN ExtractNone
    ELSE
    LET t      == strip(text)
        whole  == json_loads(t)
        blocks == code_blocks(t, 1)
        parsed == {k \in 1..Len(blocks) : json_loads(strip(blocks[k]))[1] = "value"}
        open   == IF expect_array THEN "[" ELSE "{"
        close  == IF expect_array THEN "]" ELSE "}"
        firsts == {i \in 1..Len(t) : t[i] = open}
        lasts  == {i \in 1..Len(t) : t[i] = close}
    IN  IF whole[1] = "value" THEN whole
        ELSE IF parsed /= {} THEN json_loads(strip(blocks[SetMin(parsed)]))
        ELSE IF firsts /= {} /\ lasts /= {} /\ SetMax(lasts) > SetMin(firsts)
        THEN LET r == json_loads(SubSeq(t, SetMin(firsts), SetMax(lasts)))
             IN  IF r[1] = "value" THEN r ELSE ExtractNone
        ELSE ExtractNone

(***************************************************************************)
(* processors/classifier.py: Stage 1                                       *)
(***************************************************************************)
\* The CATEGORY_* constants of EmailClassifier.
Stage1Labels ==
    {"TRASH", "PAPER", "REVIEW", "BILLING", "NOTICE", "EXAM", "PERSONAL", "UNKNOWN"}

\* The default batch_size of stage1_classify_batch.
batch_size == 10

\* str.upper() on a category string of an LLM response.
Upper(c) ==
    CASE c = "paper"  -> "PAPER"
      [] c = "Trash"  -> "TRASH"
      [] c = "exam"   -> "EXAM"
      [] c = "spam"   -> "SPAM"
      [] OTHER        -> c

\* What the LLM call of one sub-batch comes to:
\*   kind "raise"  : _call_llm raised (HTTP error, timeout, malformed body);
\*   kind "none"   : extract_json_from_text returned None;
\*   kind "object" : it returned a value that is not a list;
\*   kind "array"  : it returned the list `items`.
\* An item is [kind, id, id_is_str, category]: kind "obj" is a JSON object,
\* with id = 0 when it has no "id" key, id_is_str when the id is a JSON
\* string, category = Absent when it has no "category" key and "null" when
\* the category is JSON null; kind "num" is a JSON number.
Obj(id, cat) == [kind |-> "obj", id |-> id, id_is_str |-> FALSE, category |-> cat]

\* Does building result_map raise on this item?  ("id" in r) raises for a
\* number; r["category"].upper() raises for null.
ItemRaises(r) ==
    \/ r.kind = "num"
    \/ r.kind = "obj" /\ r.id /= 0 /\ r.category = "null"

\* result_map.get(i, UNKNOWN): the last item with the integer id i and a
\* category wins.
RECURSIVE ResultMapGet(_, _, _)
ResultMapGet(items, i, dflt) ==
    IF items = <<>> THEN dflt
    ELSE LET r == items[Len(items)]
         IN IF r.id = i /\ ~r.id_is_str /\ r.category /= Absent
            THEN Upper(r.category)
            ELSE ResultMapGet(SubSeq(items, 1, Len(items) - 1), i, dflt)

\* The positions of the sub-batch the rule engine leaves to the LLM, in order.
NeedsLlm(emails) ==
    SelectSeq([i \in 1..Len(emails) |-> i],
              LAMBDA i : check_sender_priority(emails[i])[1] = None)

\* The 1-based number a position of the sub-batch has in the LLM prompt
\* (email_idx_map), 0 for a rule-resolved one.
LlmIndex(emails, i) ==
    IF check_sender_priority(emails[i])[1] /= None THEN 0
    ELSE Cardinality({j \in 1..i : check_sender_priority(emails[j])[1] = None})

\* _classify_batch_internal that leaves the messages unannotated when the
\* LLM call or the parse fails.
classify_batch_internal_noannot(emails, resp) ==
    [i \in 1..Len(emails) |->
        LET rule == check_sender_priority(emails[i])
            ok   == /\ resp.kind = "array"
                    /\ resp.items /= <<>>
                    /\ \A k \in 1..Len(resp.items) : ~ItemRaises(resp.items[k])
        IN  IF rule[1] /= None
            THEN [emails[i] EXCEPT !.s1cat = rule[1], !.importance = rule[2]]
            ELSE IF ok
            THEN [emails[i] EXCEPT
                    !.s1cat = ResultMapGet(resp.items, LlmIndex(emails, i), "UNKNOWN")]
            ELSE emails[i]]

\* _classify_batch_internal that, when the LLM call or the parse fails, sets
\* every message of the sub-batch to UNKNOWN, the rule-resolved ones too.
classify_batch_internal_degradeall(emails, resp) ==
    [i \in 1..Len(emails) |->
        LET rule == check_sender_priority(emails[i])
            ok   == /\ resp.kind = "array"
                    /\ resp.items /= <<>>
                    /\ \A k \in 1..Len(resp.items) : ~ItemRaises(resp.items[k])
        IN  IF resp.kind /= "nocall" /\ ~ok
            THEN [emails[i] EXCEPT !.s1cat = "UNKNOWN"]
            ELSE IF rule[1] /= None
            THEN [emails[i] EXCEPT !.s1cat = rule[1], !.importance = rule[2]]
            ELSE [emails[i] EXCEPT
                    !.s1cat = ResultMapGet(resp.items, LlmIndex(emails, i), "UNKNOWN")]]

\* EmailClassifier._classify_batch_internal: the sub-batch after the call.
\* s1cat is email["_stage1_category"], importance is email["_importance"].
classify_batch_internal(emails, resp) ==
    [i \in 1..Len(emails) |->
        LET rule == check_sender_priority(emails[i])
            ok   == /\ resp.kind = "array"
                    /\ resp.items /= <<>>
                    /\ \A k \in 1..Len(resp.items) : ~ItemRaises(resp.items[k])
        IN  IF rule[1] /= None
            THEN [emails[i] EXCEPT !.s1cat = rule[1], !.importance = rule[2]]
            ELSE IF ok
            THEN [emails[i] EXCEPT
                    !.s1cat = ResultMapGet(resp.items, LlmIndex(emails, i), "UNKNOWN")]
            ELSE [emails[i] EXCEPT !.s1cat = "UNKNOWN"]]

\* Is the LLM called for this sub-batch?  (not needs_llm: return)
CallsLlm(emails) == NeedsLlm(emails) /= <<>>

\* min(batch_start + batch_size, total)
BatchEnd(start, total) == IF start + batch_size < total THEN start + batch_size ELSE total

(***************************************************************************)
(* config/categories.py: status normalisation                              *)
(***************************************************************************)
\* PAPER_STATUS_MAP and REVIEW_STATUS_MAP as <<key, value>> in dict order.
PAPER_STATUS_MAP == <<
    <<"submitted", "zh_yitougao">>, <<"under review", "zh_shengaozhong">>,
    <<"with editor", "zh_shengaozhong">>, <<"minor revision", "zh_xiaoxiu">>,
    <<"major revision", "zh_daxiu">>, <<"accepted", "zh_yijieshou_paper">>,
    <<"rejected", "zh_beijugao">>, <<"zh_yitougao", "zh_yitougao">>,
    <<"zh_shengaozhong", "zh_shengaozhong">>, <<"zh_xiaoxiu", "zh_xiaoxiu">>,
    <<"zh_daxiu", "zh_daxiu">>, <<"zh_yijieshou_paper", "zh_yijieshou_paper">>,
    <<"zh_beijugao", "zh_beijugao">> >>

REVIEW_STATUS_MAP == <<
    <<"pending", "zh_daijieshou">>, <<"invited", "zh_daijieshou">>,
    <<"accepted", "zh_yijieshou_review">>, <<"in progress", "zh_shengaozhong">>,
    <<"reviewing", "zh_shengaozhong">>, <<"submitted", "zh_yitijiao">>,
    <<"completed", "zh_yitijiao">>, <<"zh_daijieshou", "zh_daijieshou">>,
    <<"zh_yijieshou_review", "zh_yijieshou_review">>,
    <<"zh_shengaozhong", "zh_shengaozhong">>, <<"zh_yitijiao", "zh_yitijiao">> >>

\* for key, value in map.items(): if key.lower() in status_lower: return value
RECURSIVE FirstStatus(_, _, _, _)
FirstStatus(map, i, status_lower, dflt) ==
    IF i > Len(map) THEN dflt
    ELSE IF Contains(LowerFrag(map[i][1]), status_lower) THEN map[i][2]
    ELSE FirstStatus(map, i + 1, status_lower, dflt)

\* normalize_paper_status with the label "unknown" for what no key matches.
normalize_paper_status_unknown(status) ==
    IF status = <<>> THEN "zh_shengaozhong"
    ELSE FirstStatus(PAPER_STATUS_MAP, 1, Lower(status), "unknown")

normalize_paper_status(status) ==
    IF status = <<>> THEN "zh_shengaozhong"
    ELSE FirstStatus(PAPER_STATUS_MAP, 1, Lower(status), "zh_shengaozhong")

normalize_review_status(status) ==
    IF status = <<>> THEN "zh_daijieshou"
    ELSE FirstStatus(REVIEW_STATUS_MAP, 1, Lower(status), "zh_daijieshou")

(***************************************************************************)
(* core/notion_client.py                                                   *)
(***************************************************************************)
\* One attempt of NotionClient._request:
\*   "ok"       the store performed the request and answered 200;
\*   "rejected" the store answered with an error status and did nothing;
\*   "lost"     the store performed the request, the attempt raised
\*              (time-out or unreadable answer);
\*   "fail"     the request never reached the store, the attempt raised.
Raises == {"lost", "fail"}
Answers == {"ok", "rejected"}

\* The attempts one _request call can go through: an attempt that raises is
\* followed by the next one, up to three; an answer ends the call.
RequestRuns ==
    { <<a>> : a \in Answers }
    \cup { <<x, a>> : x \in Raises, a \in Answers }
    \cup { <<x, y, a>> : x \in Raises, y \in Raises, a \in Answers \cup Raises }

\* "id" in result, resp. result.get("results") of a query: the last attempt
\* answered 200.
ReqOk(attempts) == attempts[Len(attempts)] = "ok"
\* How many times the store performed the request.
TimesPerformed(attempts) ==
    Cardinality({k \in 1..Len(attempts) : attempts[k] \in {"ok", "lost"}})

Repeat(x, n) == [k \in 1..n |-> x]

SyncResult(pages, ok, op) == [pages |-> pages, ok |-> ok, op |-> op]

\* get_existing_records: the key of a page, <<>> for a page that gets none.
RecordKey(page) ==
    IF page.manuscript_id /= <<>> THEN page.manuscript_id ELSE Take(page.title, 50)

\* existing.get(key) on the dict get_existing_records builds from the pages
\* the query returned: the index of the last page with that key, 0 for None.
ExistingGet(pages, key) ==
    LET hits == {k \in 1..Len(pages) : RecordKey(pages[k]) /= <<>> /\ RecordKey(pages[k]) = key}
    IN  IF hits = {} THEN 0 ELSE CHOOSE k \in hits : \A j \in hits : j <= k

\* The pages get_existing_records sees: none when the query failed.
Queried(pages, query) == IF ReqOk(query) THEN pages ELSE <<>>

\* NotionClient.sync_paper.  io.db_ok: get_papers_db returned an id;
\* io.query, io.write: the attempts of the query and of the PATCH or POST.
sync_paper(pages, paper, io) ==
    LET existing == Queried(pages, io.query)
        title    == Take(paper.title, 100)
        status   == normalize_paper_status(paper.status)
        byId     == ExistingGet(existing, paper.manuscript_id)
        found    == IF byId /= 0 THEN byId ELSE ExistingGet(existing, Take(title, 50))
        page     == [ title |-> title, manuscript_id |-> paper.manuscript_id,
                      type |-> IF paper.venue_type = "journal" THEN "zh_qikan" ELSE "zh_huiyi",
                      venue |-> Take(paper.venue, 100),
                      status |-> status,
                      notes |-> Take(paper.notes, 500), date |-> paper.date ]
    IN  IF ~io.db_ok THEN SyncResult(pages, FALSE, "none")
        ELSE IF title = <<>> THEN SyncResult(pages, FALSE, "none")
        ELSE IF found /= 0
        THEN SyncResult(
                IF TimesPerformed(io.write) = 0 THEN pages
                ELSE [pages EXCEPT ![found].status = status,
                                   ![found].notes = Take(paper.notes, 500),
                                   ![found].date = IF paper.date /= <<>> THEN paper.date
                                                   ELSE pages[found].date],
                ReqOk(io.write), "PATCH")
        ELSE SyncResult(pages \o Repeat(page, TimesPerformed(io.write)), ReqOk(io.write), "POST")

\* NotionClient.sync_review.  A review page has no manuscript id property; its
\* journal property is filled from review["journal"], a key the items of
\* Stage 2 do not have.
sync_review(pages, review, io) ==
    LET existing == Queried(pages, io.query)
        title    == Take(IF review.title = <<>> THEN <<"zh_weizhi_lunwen">> ELSE review.title, 100)
        status   == normalize_review_status(review.status)
        found    == ExistingGet(existing, Take(title, 50))
        page     == [ title |-> title, manuscript_id |-> <<>>, type |-> "",
                      venue |-> <<>>, status |-> status,
                      notes |-> Take(review.notes, 500), date |-> review.date ]
    IN  IF ~io.db_ok THEN SyncResult(pages, FALSE, "none")
        ELSE IF found /= 0
        THEN SyncResult(
                IF TimesPerformed(io.write) = 0 THEN pages
                ELSE [pages EXCEPT ![found].status = status,
                                   ![found].notes = Take(review.notes, 500),
                                   ![found].date = IF review.date /= <<>> THEN review.date
                                                   ELSE pages[found].date],
                ReqOk(io.write), "PATCH")
        ELSE SyncResult(pages \o Repeat(page, TimesPerformed(io.write)), ReqOk(io.write), "POST")

\* importance_map.get(importance, ...) of sync_email.
ImportanceName(importance) ==
    CASE importance = 5 -> "5-zh_jinji"
      [] importance = 4 -> "4-zh_zhongyao"
      [] importance = 3 -> "3-zh_yiban"
      [] importance = 1 -> "1-zh_di"
      [] OTHER          -> "2-zh_kexuan"

\* The page sync_email builds (the date is left out).
EmailPage(email, category, importance, needs_action) ==
    [ subject |-> Take(IF email.subject = <<>> THEN <<"zh_wubiaoti">> ELSE email.subject, 100),
      from |-> Take(email.from, 100),
      account |-> email.account,
      category |-> category,
      importance |-> ImportanceName(importance),
      needs_action |-> needs_action ]

\* sync_email that updates the page of the same subject, sender and account
\* when there is one.
sync_email_upsert(pages, email, category, importance, needs_action, io) ==
    LET page == EmailPage(email, category, importance, needs_action)
        hits == {k \in 1..Len(pages) :
                    /\ pages[k].subject = page.subject /\ pages[k].from = page.from
                    /\ pages[k].account = page.account}
    IN  IF ~io.db_ok THEN SyncResult(pages, FALSE, "none")
        ELSE IF hits /= {}
        THEN SyncResult(
                IF TimesPerformed(io.write) = 0 THEN pages
                ELSE [pages EXCEPT ![CHOOSE k \in hits : TRUE] = page],
                ReqOk(io.write), "PATCH")
        ELSE SyncResult(pages \o Repeat(page, TimesPerformed(io.write)), ReqOk(io.write), "POST")

\* NotionClient.sync_email: no query, always POST /pages.
sync_email(pages, email, category, importance, needs_action, io) ==
    IF ~io.db_ok THEN SyncResult(pages, FALSE, "none")
    ELSE SyncResult(
            pages \o Repeat(EmailPage(email, category, importance, needs_action),
                            TimesPerformed(io.write)),
            ReqOk(io.write), "POST")

(***************************************************************************)
(* processors/billing.py: the remote upsert of a billing item              *)
(***************************************************************************)
\* BillingProcessor._find_existing_record: results[0]["id"] of the filtered
\* query, 0 for None.
find_existing_record(pages, name, period, query) ==
    LET hits == {k \in 1..Len(Queried(pages, query)) :
                    pages[k].name = name /\ pages[k].period = period}
    IN  IF hits = {} THEN 0 ELSE CHOOSE k \in hits : \A j \in hits : k <= j

\* BillingProcessor._sync_to_notion
sync_to_notion(pages, billing_item, period, io) ==
    LET page  == [ name |-> billing_item.name, type |-> billing_item.type,
                   period |-> period,
                   status |-> IF billing_item.status = "pending"
                              THEN "zh_daihuankuan" ELSE "zh_yihuankuan",
                   amount |-> billing_item.amount ]
        found == find_existing_record(pages, billing_item.name, period, io.query)
    IN  IF ~io.db_ok THEN SyncResult(pages, FALSE, "none")
        ELSE IF found /= 0
        THEN SyncResult(
                IF TimesPerformed(io.write) = 0 THEN pages
                ELSE [pages EXCEPT ![found] =
                        [page EXCEPT !.amount = IF billing_item.amount /= 0
                                                THEN billing_item.amount
                                                ELSE pages[found].amount]],
                ReqOk(io.write), "PATCH")
        ELSE SyncResult(pages \o Repeat(page, TimesPerformed(io.write)), ReqOk(io.write), "POST")

(***************************************************************************)
(* processors/classifier.py: Stage 2                                       *)
(***************************************************************************)
\* result["item"] when it is null or missing.
NoItem ==
    [ type |-> "none", category |-> "", title |-> <<>>, manuscript_id |-> <<>>,
      status |-> <<>>, venue_type |-> "", venue |-> <<>>, notes |-> <<>>,
      date |-> <<>>, is_published_spam |-> FALSE, source_emails |-> 0 ]

\* What the LLM call of _analyze_single_email comes to.  ok: the answer parsed
\* to a dict; item: its "item"; has_cls: it has a non-empty "classification",
\* whose keys are category (or Absent), importance (or NoneInt) and
\* needs_action ("True", "False" or Absent).  raises: the statement of the
\* try block that raises on this dict, "no" for none:
\*   "classification" : cls.get, the "classification" being no dict (null);
\*   "summary"        : cls.get("summary", "")[:20], the summary being null;
\*   "item"           : item.get, the "item" being a string or a list.
S2Answer(ok, item, has_cls, category, importance, needs_action) ==
    [ ok |-> ok, item |-> item, has_cls |-> has_cls, category |-> category,
      importance |-> importance, needs_action |-> needs_action, raises |-> "no" ]

\* _analyze_single_email returned the parsed dict, not {}.
Returned(ans) == ans.ok /\ ans.raises = "no"

\* EmailClassifier._analyze_single_email: the email after the call.  The
\* annotations are assigned one by one inside the try block, so those made
\* before the raising statement stay.
analyze_single_email(email, ans) ==
    LET annotated ==
            [email EXCEPT
                !.final_category = IF ans.has_cls /\ ans.category /= Absent
                                   THEN ans.category ELSE "Unknown",
                !.importance     = IF ans.has_cls /\ ans.importance /= NoneInt
                                   THEN ans.importance ELSE 2,
                !.needs_action   = IF ans.has_cls /\ ans.needs_action /= Absent
                                   THEN ans.needs_action ELSE "False"]
    IN  IF ~ans.ok \/ ans.raises = "classification" THEN email
        ELSE IF ans.raises \in {"summary", "item"} THEN annotated
        ELSE IF ans.item.type /= "none" /\ ans.item.is_published_spam
        THEN [annotated EXCEPT !.final_category = "Trash/Published",
                               !.importance = 1, !.needs_action = "False"]
        ELSE annotated

\* EmailClassifier.stage2_analyze_content: "items" of the analysis.
Stage2Items(answers) ==
    LET numbered == [i \in 1..Len(answers) |-> [answers[i].item EXCEPT !.source_emails = i]]
    IN  SelectSeq(numbered,
                  LAMBDA it : Returned(answers[it.source_emails]) /\ it.type /= "none")

\* class_map.get(i, {}).get("category") for each i of the analysed list:
\* Absent when the message has no classification or it has no category.
Stage2ClassMap(answers) ==
    [i \in 1..Len(answers) |->
        IF Returned(answers[i]) /\ answers[i].has_cls THEN answers[i].category ELSE Absent]

\* The classification as stage2_analyze_content appends it.
Classification(ans, i) ==
    [id |-> i, category |-> ans.category, importance |-> ans.importance,
     needs_action |-> ans.needs_action]

\* One iteration of the loop, numbering by the count of results so far.
stage2_iteration_shifted(st, ans) ==
    LET i        == st.i
        email    == analyze_single_email(st.emails[i], ans)
        has_item == Returned(ans) /\ ans.item.type /= "none"
        has_cls  == Returned(ans) /\ ans.has_cls
    IN  [ i      |-> i + 1,
          emails |-> [st.emails EXCEPT ![i] = email],
          calls  |-> [st.calls EXCEPT ![i] = @ + 1],
          items  |-> IF has_item
                     THEN Append(st.items,
                                 [ans.item EXCEPT !.source_emails = Len(st.items) + 1])
                     ELSE st.items,
          classifications |->
                     IF has_cls
                     THEN Append(st.classifications,
                                 Classification(ans, Len(st.classifications) + 1))
                     ELSE st.classifications ]

\* One iteration of the loop of stage2_analyze_content: message i is analysed
\* and what the analysis returned is appended under the position i.
stage2_iteration(st, ans) ==
    LET i        == st.i
        email    == analyze_single_email(st.emails[i], ans)
        has_item == Returned(ans) /\ ans.item.type /= "none"
        has_cls  == Returned(ans) /\ ans.has_cls
    IN  [ i      |-> i + 1,
          emails |-> [st.emails EXCEPT ![i] = email],
          calls  |-> [st.calls EXCEPT ![i] = @ + 1],
          items  |-> IF has_item
                     THEN Append(st.items, [ans.item EXCEPT !.source_emails = i])
                     ELSE st.items,
          classifications |->
                     IF has_cls
                     THEN Append(st.classifications, Classification(ans, i))
                     ELSE st.classifications ]

(***************************************************************************)
(* processors/email_processor.py, processors/academic.py                   *)
(***************************************************************************)
GroupNames == {"TRASH", "PAPER", "REVIEW", "BILLING", "NOTICE", "EXAM", "PERSONAL", "UNKNOWN"}

\* The grouping that files a message only under its own recognised label.
group_emails_by_category_drop(emails, key) ==
    SelectSeq([p \in 1..Len(emails) |-> p], LAMBDA p : emails[p].s1cat = key)

\* group_emails_by_category: the positions of `emails` filed under `key`.
group_emails_by_category(emails, key) ==
    SelectSeq([p \in 1..Len(emails) |-> p],
              LAMBDA p : (IF emails[p].s1cat \in GroupNames THEN emails[p].s1cat
                          ELSE "UNKNOWN") = key)

\* process_stage2_results: the keys of the message that
\* should_sync_to_emails_db reads, after the call.  class_category is
\* class_map.get(i, {}).get("category"), Absent for none.
process_stage2_results(email, class_category, items, i) ==
    LET hits == {j \in 1..Len(items) : items[j].source_emails = i}
    IN  [ final_category |->
              IF class_category /= Absent THEN class_category
              ELSE IF email.final_category /= Absent THEN email.final_category
              ELSE "Unknown",
          item_category  |->
              IF hits = {} THEN Absent
              ELSE items[CHOOSE j \in hits : \A h \in hits : j <= h].category,
          needs_action   |-> email.needs_action ]

\* x or "" of a value read with email.get(key, "").
OrEmpty(x) == IF x \in {Absent, None} THEN "" ELSE x

\* should_sync_to_emails_db with the item category also tested for "Trash".
should_sync_to_emails_db_itemtrash(email) ==
    LET final_category == OrEmpty(email.final_category)
        item_category  == OrEmpty(email.item_category)
        needs_action   == email.needs_action = "True"
        is_trash  == Contains("Trash", <<final_category>>) \/ Contains("Trash", <<item_category>>)
        is_paper  == Contains("Paper", <<final_category>>) \/ Contains("Paper", <<item_category>>)
        is_review == Contains("Review", <<final_category>>) \/ Contains("Review", <<item_category>>)
    IN  IF is_trash THEN <<FALSE, "">>
        ELSE IF is_paper \/ is_review \/ needs_action
        THEN <<TRUE, IF is_review THEN "zh_shengao" ELSE "zh_xueshu">>
        ELSE <<FALSE, "">>

\* should_sync_to_emails_db(email): (whether to sync, the bucket).
should_sync_to_emails_db(email) ==
    LET final_category == OrEmpty(email.final_category)
        item_category  == OrEmpty(email.item_category)
        needs_action   == email.needs_action = "True"
        is_trash  == Contains("Trash", <<final_category>>)
        is_paper  == Contains("Paper", <<final_category>>) \/ Contains("Paper", <<item_category>>)
        is_review == Contains("Review", <<final_category>>) \/ Contains("Review", <<item_category>>)
    IN  IF is_trash THEN <<FALSE, "">>
        ELSE IF is_paper \/ is_review \/ needs_action
        THEN <<TRUE, IF is_review THEN "zh_shengao" ELSE "zh_xueshu">>
        ELSE <<FALSE, "">>

SYNC_CATEGORIES ==
    {"Paper/InProgress", "Paper/Journal", "Paper/Conference", "Review/Active",
     "Action/Important", "Info/Newsletter"}

\* AcademicProcessor.process: which store an item is upserted to, "" for none.
AcademicTarget(item) ==
    IF item.category \notin SYNC_CATEGORIES THEN ""
    ELSE IF item.type = "paper" /\ item.category \in
                {"Paper/InProgress", "Paper/Journal", "Paper/Conference"} THEN "papers"
    ELSE IF item.type = "review" /\ item.category = "Review/Active" THEN "reviews"
    ELSE ""

(***************************************************************************)
(* core/email_client.py                                                    *)
(***************************************************************************)
RECURSIVE SortedSeq(_)
SortedSeq(S) ==
    IF S = {} THEN <<>>
    ELSE LET m == CHOOSE x \in S : \A y \in S : x <= y
         IN  <<m>> \o SortedSeq(S \ {m})

\* A From header that no rule of the rule engine matches.
EditorFrom == <<"editor", "@", "elsevier.com">>

\* The dict fetch_unread_emails builds for message i; the keys that Stage 1
\* and Stage 2 add later are Absent.
FetchedEmail(i, ids, froms) ==
    [ email_id |-> i, account |-> "gmail", message_id |-> ids[i],
      from |-> froms[i],
      subject |-> <<"decision">> \o Chars(i, 0),
      s1cat |-> Absent, importance |-> NoneInt,
      final_category |-> Absent, needs_action |-> Absent ]

\* EmailClient.fetch_unread_emails
fetch_unread_emails(u, ids, froms) ==
    [k \in 1..Cardinality(u) |-> FetchedEmail(SortedSeq(u)[k], ids, froms)]

(***************************************************************************)
(* scheduler/watcher.py: EmailWatcher.check_and_process                    *)
(***************************************************************************)
\* The new set when the markers are not consulted.
NewEmails_nofilter(all_unread, processed_ids) == all_unread

\* new_emails = [e for e in all_unread if e.get("message_id") not in processed_ids]
NewEmails(all_unread, processed_ids) ==
    SelectSeq(all_unread, LAMBDA e : e.message_id \notin processed_ids)

\* The answer of the Stage-1 LLM call for a sub-batch: the category s1 has
\* for each message of the prompt.
Stage1Answer(emails, s1) ==
    [ kind |-> "array",
      items |-> [k \in 1..Len(NeedsLlm(emails)) |->
                    Obj(k, s1[emails[NeedsLlm(emails)[k]].email_id])] ]

\* EmailClassifier.stage1_classify_batch
RECURSIVE stage1_classify_batch(_, _)
stage1_classify_batch(emails, s1) ==
    IF emails = <<>> THEN <<>>
    ELSE LET n    == BatchEnd(0, Len(emails))
             head == SubSeq(emails, 1, n)
         IN  classify_batch_internal(head, Stage1Answer(head, s1))
               \o stage1_classify_batch(SubSeq(emails, n + 1, Len(emails)), s1)

\* The prompts of the Stage-1 LLM calls stage1_classify_batch makes, in order:
\* for each sub-batch that calls the LLM, the email ids put in its prompt.
RECURSIVE Stage1Prompts(_)
Stage1Prompts(emails) ==
    IF emails = <<>> THEN <<>>
    ELSE LET n    == BatchEnd(0, Len(emails))
             head == SubSeq(emails, 1, n)
         IN  (IF CallsLlm(head)
              THEN <<{head[NeedsLlm(head)[k]].email_id : k \in 1..Len(NeedsLlm(head))}>>
              ELSE <<>>)
               \o Stage1Prompts(SubSeq(emails, n + 1, Len(emails)))

\* The sections of check_and_process after the grouping, in order.  STAGE2 is
\* the section of need_stage2 = paper_emails + review_emails + unknown_emails.
PhaseOrder == <<"TRASH", "STAGE2", "BILLING", "NOTICE", "EXAM", "PERSONAL">>

PhaseMembers(emails, phase) ==
    IF phase = "STAGE2"
    THEN group_emails_by_category(emails, "PAPER")
           \o group_emails_by_category(emails, "REVIEW")
           \o group_emails_by_category(emails, "UNKNOWN")
    ELSE group_emails_by_category(emails, phase)

\* The local variables of check_and_process, and where it stands:
\*   pc "idle"          not running;
\*   pc "analyze"       before stage2_analyze_content of the section;
\*   pc "academic"      in academic_processor.process, before item ipos;
\*   pc "billing_parse" before parse_billing_emails;
\*   pc "billing_items" in billing_processor.process, before item ipos;
\*   pc "loop"          in the section's loop, at message members[pos], before
\*                      step stepi of its steps;
\*   pc "personal_read" after the loop of the PERSONAL section.
IdleRun ==
    [ pc |-> "idle", k |-> 0, new_emails |-> <<>>, members |-> <<>>,
      pos |-> 0, stepi |-> 0, items |-> <<>>, bill_items |-> <<>>, ipos |-> 0,
      class_map |-> <<>> ]

Phase(r) == PhaseOrder[r.k]

\* The email the loop of the section is at.
LoopEmail(r) == r.new_emails[r.members[r.pos]]

\* The final category when it falls back on the Stage-1 category.
FinalCategory_stage1default(r) ==
    IF r.class_map[r.pos] /= Absent THEN r.class_map[r.pos]
    ELSE IF LoopEmail(r).final_category /= Absent THEN LoopEmail(r).final_category
    ELSE LoopEmail(r).s1cat

\* final_category = cls_info.get("category", email.get("_final_category", "Unknown"))
FinalCategory(r) ==
    IF r.class_map[r.pos] /= Absent THEN r.class_map[r.pos]
    ELSE IF LoopEmail(r).final_category /= Absent THEN LoopEmail(r).final_category
    ELSE "Unknown"

\* item_category: the category of the first item whose source_emails holds
\* the number of the message, None without one.
ItemCategory(r) ==
    LET hits == {j \in 1..Len(r.items) : r.items[j].source_emails = r.pos}
    IN  IF hits = {} THEN None
        ELSE r.items[CHOOSE j \in hits : \A h \in hits : j <= h].category

IsTrash(r)  == Contains("Trash", <<FinalCategory(r)>>)
IsPaper(r)  == Contains("Paper", <<FinalCategory(r)>>) \/ Contains("Paper", <<ItemCategory(r)>>)
IsReview(r) == Contains("Review", <<FinalCategory(r)>>) \/ Contains("Review", <<ItemCategory(r)>>)

\* email.get(key, default) for the keys Stage 2 may have set.
ImportanceOr(email, dflt) == IF email.importance = NoneInt THEN dflt ELSE email.importance
NeedsActionOr(email, dflt) == IF email.needs_action = Absent THEN dflt ELSE email.needs_action = "True"

\* Does the loop call sync_email for the message it is at?
WantsSync(r) ==
    CASE Phase(r) = "TRASH"  -> FALSE
      [] Phase(r) = "STAGE2" ->
            ~IsTrash(r) /\ (IsPaper(r) \/ IsReview(r) \/ NeedsActionOr(LoopEmail(r), FALSE))
      [] OTHER -> TRUE

\* The category, importance and needs_action handed to sync_email.
SyncArgs(r) ==
    CASE Phase(r) = "STAGE2" ->
            [ category |-> IF IsReview(r) THEN "zh_shengao" ELSE "zh_xueshu",
              importance |-> ImportanceOr(LoopEmail(r), 2),
              needs_action |-> NeedsActionOr(LoopEmail(r), FALSE) ]
      [] Phase(r) = "BILLING" ->
            [ category |-> "zh_zhangdan", importance |-> 2, needs_action |-> FALSE ]
      [] Phase(r) = "NOTICE" ->
            [ category |-> "zh_tongzhi", importance |-> ImportanceOr(LoopEmail(r), 2),
              needs_action |-> NeedsActionOr(LoopEmail(r), FALSE) ]
      [] Phase(r) = "EXAM" ->
            [ category |-> "zh_kaoshi", importance |-> ImportanceOr(LoopEmail(r), 5),
              needs_action |-> NeedsActionOr(LoopEmail(r), TRUE) ]
      [] OTHER ->
            [ category |-> "zh_geren", importance |-> ImportanceOr(LoopEmail(r), 3),
              needs_action |-> NeedsActionOr(LoopEmail(r), FALSE) ]

\* mark_processed called with the Stage-2 category of the message in every
\* section whose messages Stage 2 has analysed.
MarkArgs_stage2recorded(r) ==
    [ message_id |-> LoopEmail(r).message_id,
      account    |-> LoopEmail(r).account,
      subject    |-> LoopEmail(r).subject,
      stage1_result |->
          IF Phase(r) = "STAGE2"
          THEN (IF LoopEmail(r).s1cat = Absent THEN "UNKNOWN" ELSE LoopEmail(r).s1cat)
          ELSE Phase(r),
      stage2_category |->
          IF Phase(r) = "STAGE2"
          THEN (IF ItemCategory(r) \in {None, ""} THEN FinalCategory(r) ELSE ItemCategory(r))
          ELSE IF LoopEmail(r).final_category /= Absent THEN LoopEmail(r).final_category
          ELSE None,
      synced |->
          CASE Phase(r) = "TRASH"  -> FALSE
            [] Phase(r) = "STAGE2" -> ~IsTrash(r)
            [] OTHER               -> TRUE,
      marked_read |-> TRUE ]

\* The arguments of the section's mark_processed call.
MarkArgs(r) ==
    [ message_id |-> LoopEmail(r).message_id,
      account    |-> LoopEmail(r).account,
      subject    |-> LoopEmail(r).subject,
      stage1_result |->
          IF Phase(r) = "STAGE2"
          THEN (IF LoopEmail(r).s1cat = Absent THEN "UNKNOWN" ELSE LoopEmail(r).s1cat)
          ELSE Phase(r),
      stage2_category |->
          IF Phase(r) = "STAGE2"
          THEN (IF ItemCategory(r) \in {None, ""} THEN FinalCategory(r) ELSE ItemCategory(r))
          ELSE None,
      synced |->
          CASE Phase(r) = "TRASH"  -> FALSE
            [] Phase(r) = "STAGE2" -> ~IsTrash(r)
            [] OTHER               -> TRUE,
      marked_read |-> TRUE ]

\* The loop body with the marker written first.
MessageSteps_markfirst(phase) ==
    CASE phase = "TRASH"    -> <<"mark", "read">>
      [] phase = "PERSONAL" -> <<"mark", "sync">>
      [] OTHER              -> <<"mark", "sync", "read">>

\* The loop bodies when the trash loop writes no marker.
MessageSteps_trashunmarked(phase) ==
    CASE phase = "TRASH"    -> <<"read">>
      [] phase = "PERSONAL" -> <<"sync", "mark">>
      [] OTHER              -> <<"sync", "mark", "read">>

\* The calls of the loop body of a section, in the order of the code.  In the
\* PERSONAL section mark_as_read stands after the loop.
MessageSteps(phase) ==
    CASE phase = "TRASH"    -> <<"mark", "read">>
      [] phase = "PERSONAL" -> <<"sync", "mark">>
      [] OTHER              -> <<"sync", "mark", "read">>

\* The calls the loop makes for the message it is at.
StepsOf(r) == SelectSeq(MessageSteps(Phase(r)), LAMBDA st : st /= "sync" \/ WantsSync(r))
CurStep(r) == IF r.pc = "loop" THEN StepsOf(r)[r.stepi] ELSE ""

\* Control reaches section k: sections without messages are skipped; after
\* the last one check_and_process returns.
RECURSIVE EnterPhase(_, _)
EnterPhase(r, k) ==
    IF k > Len(PhaseOrder) THEN IdleRun
    ELSE LET mem == PhaseMembers(r.new_emails, PhaseOrder[k])
         IN  IF mem = <<>> THEN EnterPhase(r, k + 1)
             ELSE [r EXCEPT !.k = k, !.members = mem, !.pos = 1, !.stepi = 1,
                            !.items = <<>>, !.bill_items = <<>>, !.ipos = 0,
                            !.class_map = <<>>,
                            !.pc = CASE PhaseOrder[k] = "TRASH"   -> "loop"
                                     [] PhaseOrder[k] = "BILLING" -> "billing_parse"
                                     [] OTHER                     -> "analyze"]

\* Control reaches the loop's iteration for members[pos], or leaves the loop.
EnterMessage(r, pos) ==
    IF pos <= Len(r.members) THEN [r EXCEPT !.pc = "loop", !.pos = pos, !.stepi = 1]
    ELSE IF Phase(r) = "PERSONAL" THEN [r EXCEPT !.pc = "personal_read", !.pos = Len(r.members)]
    ELSE EnterPhase(r, r.k + 1)

\* Control after a call of the loop body.
StepDone(r) ==
    IF r.stepi < Len(StepsOf(r)) THEN [r EXCEPT !.stepi = r.stepi + 1]
    ELSE EnterMessage(r, r.pos + 1)

\* AcademicProcessor.process: control reaches the first item from j on that
\* is upserted, or the section's loop.
EnterItem(r, j) ==
    LET todo == {h \in j..Len(r.items) : AcademicTarget(r.items[h]) /= ""}
    IN  IF todo = {} THEN EnterMessage(r, 1)
        ELSE [r EXCEPT !.pc = "academic", !.ipos = CHOOSE h \in todo : \A g \in todo : h <= g]

\* BillingProcessor.process: control reaches the first item from j on that
\* has a name, or the section's loop.
EnterBill(r, j) ==
    LET todo == {h \in j..Len(r.bill_items) : r.bill_items[h].name /= ""}
    IN  IF todo = {} THEN EnterMessage(r, 1)
        ELSE [r EXCEPT !.pc = "billing_items", !.ipos = CHOOSE h \in todo : \A g \in todo : h <= g]

(***************************************************************************)
(* core/billing_db.py                                                      *)
(***************************************************************************)
\* get_or_create_item that inserts without looking the name up.
get_or_create_item_insert(items, name, type) ==
    items \cup {[name |-> name, type |-> type, notion_page_id |-> 0]}

\* BillingDB.get_or_create_item on the billing_items rows.
get_or_create_item(items, name, type) ==
    IF \E it \in items : it.name = name THEN items
    ELSE items \cup {[name |-> name, type |-> type, notion_page_id |-> 0]}

\* BillingDB.update_item_notion_id
update_item_notion_id(items, name, page_id) ==
    {IF it.name = name THEN [it EXCEPT !.notion_page_id = page_id] ELSE it : it \in items}

\* COALESCE(?, column) of the UPDATE: SQL NULL is None, resp. NoneInt for the
\* amount; an empty string is a value.
Coalesce(x, stored) == IF x = None THEN stored ELSE x
CoalesceInt(x, stored) == IF x = NoneInt THEN stored ELSE x

\* The has_changes test of add_or_update_record on the existing row.
RecordChanges(old, amount, due_date, status) ==
    \/ amount /= NoneInt /\ old.amount /= amount
    \/ due_date /= None /\ old.due_date /= due_date
    \/ status \notin {None, ""} /\ old.status /= status

\* add_or_update_record that writes whenever a row exists.
add_or_update_record_alwayswrite(records, item_id, period, amount, due_date, status, email_message_id, notes) ==
    LET old == {rec \in records : rec.item_id = item_id /\ rec.period = period}
    IN  IF old = {}
        THEN [records |-> records \cup
                  {[item_id |-> item_id, period |-> period, amount |-> amount,
                    due_date |-> due_date, status |-> status,
                    email_message_id |-> email_message_id, notes |-> notes]},
              is_new |-> TRUE, has_changes |-> TRUE]
        ELSE [records |->
                  {IF rec \in old
                   THEN [rec EXCEPT !.amount = CoalesceInt(amount, rec.amount),
                                    !.due_date = Coalesce(due_date, rec.due_date),
                                    !.status = Coalesce(status, rec.status),
                                    !.email_message_id = Coalesce(email_message_id, rec.email_message_id),
                                    !.notes = Coalesce(notes, rec.notes)]
                   ELSE rec : rec \in records},
              is_new |-> FALSE, has_changes |-> TRUE]

\* BillingDB.add_or_update_record on the billing_records rows (item_id is the
\* item's name, which billing_items keeps unique).  Returns the table and
\* the flags of the returned tuple (record_id, is_new, has_changes).
add_or_update_record(records, item_id, period, amount, due_date, status, email_message_id, notes) ==
    LET old == {rec \in records : rec.item_id = item_id /\ rec.period = period}
        has_changes == \E rec \in old : RecordChanges(rec, amount, due_date, status)
    IN  IF old = {}
        THEN [records |-> records \cup
                  {[item_id |-> item_id, period |-> period, amount |-> amount,
                    due_date |-> due_date, status |-> status,
                    email_message_id |-> email_message_id, notes |-> notes]},
              is_new |-> TRUE, has_changes |-> TRUE]
        ELSE [records |->
                  IF ~has_changes THEN records
                  ELSE {IF rec \in old
                        THEN [rec EXCEPT !.amount = CoalesceInt(amount, rec.amount),
                                         !.due_date = Coalesce(due_date, rec.due_date),
                                         !.status = Coalesce(status, rec.status),
                                         !.email_message_id = Coalesce(email_message_id, rec.email_message_id),
                                         !.notes = Coalesce(notes, rec.notes)]
                        ELSE rec : rec \in records},
              is_new |-> FALSE, has_changes |-> has_changes]

(***************************************************************************)
(* Specifications.  Each one drives one part of the program and holds the  *)
(* variables of the other parts at their initial values.                   *)
(***************************************************************************)
vars == <<re_email, re_result, markers, mk_hist, s1_emails, s1_start, s1_log,
          unread, msg_ids, msg_from, papers, reviews, bills, summaries, local_items,
          local_records, llm_s1, llm_s2, llm_bill, run, run_no, crashes, trace,
          fn_in, fn_out>>

ruleVars   == <<re_email, re_result>>
markerVars == <<markers, mk_hist>>
stage1Vars == <<s1_emails, s1_start, s1_log>>
storeVars  == <<papers, reviews, bills, summaries>>
localVars  == <<local_items, local_records>>
llmVars    == <<llm_s1, llm_s2, llm_bill>>
pureVars   == <<fn_in, fn_out>>
runVars    == <<unread, msg_ids, msg_from, storeVars, localVars, llmVars, run, run_no, crashes, trace>>

PureIdle   == fn_in = <<>> /\ fn_out = <<>>
RuleIdle   == re_email = [from |-> <<>>, subject |-> <<>>] /\ re_result = <<"pending", NoneInt>>
MarkerIdle == markers = {} /\ mk_hist = <<>>
Stage1Idle == s1_emails = <<>> /\ s1_start = 0 /\ s1_log = <<>>
\* The history kept for the properties of a run.  About the last step: op,
\* msgs (the email ids it was for), ok (what the call returned), performed
\* (how many times the remote store carried out the write), store_op, added
\* (pages added).  About the current run: excluded (fetched messages whose
\* non-empty id had a marker at the start), analysed, upserted (an item upsert
\* for the message returned success), summarised (a summary create for it was
\* carried out), sync_failed (sync_email returned False for it), marked
\* (mark_processed was called for it), read (mark_as_read was requested).
\* About the last killed run: k_analysed (analysed, mark_as_read not yet
\* requested), k_marked (non-empty id, marked, mark_as_read not yet
\* requested), k_upserted and k_summarised (upserted resp. summarised, not yet
\* marked).
NoTrace ==
    [ op |-> "none", msgs |-> {}, ok |-> FALSE, performed |-> 0, store_op |-> "none",
      added |-> 0, excluded |-> {}, analysed |-> {}, upserted |-> {},
      summarised |-> {}, sync_failed |-> {}, marked |-> {}, read |-> {},
      s1_prompts |-> <<>>,
      k_analysed |-> {}, k_marked |-> {}, k_upserted |-> {}, k_summarised |-> {} ]

RunIdle ==
    /\ unread = {} /\ msg_ids = <<>> /\ msg_from = <<>>
    /\ papers = <<>> /\ reviews = <<>> /\ bills = <<>> /\ summaries = <<>>
    /\ local_items = {} /\ local_records = {}
    /\ llm_s1 = <<>> /\ llm_s2 = <<>> /\ llm_bill = [asked |-> FALSE, items |-> <<>>]
    /\ run = IdleRun /\ run_no = 0 /\ crashes = 0
    /\ trace = NoTrace

(***************************************************************************)
(* SpecRules: the rule engine on every sender and subject of a vocabulary  *)
(***************************************************************************)
MaxFromFrags == 3
MaxSubjectFrags == 1

FromFrags ==
    { "ielts", "britishcouncil", "NoReply", "cmbchina", "aliyun", "editor", "greetings" }
SubjectFrags == { "Score", "zh_yasi", "Reprint", "hello" }

SeqsUpTo(S, n) == UNION { [1..k -> S] : k \in 0..n }

RuleEmails ==
    { [from |-> f, subject |-> s] :
        f \in SeqsUpTo(FromFrags, MaxFromFrags), s \in SeqsUpTo(SubjectFrags, MaxSubjectFrags) }

RuleInit ==
    /\ re_email \in RuleEmails
    /\ re_result = <<"pending", NoneInt>>
    /\ MarkerIdle /\ Stage1Idle /\ RunIdle /\ PureIdle

RuleCheck ==
    /\ re_result = <<"pending", NoneInt>>
    /\ re_result' = check_sender_priority(re_email)
    /\ UNCHANGED <<pureVars, re_email, markerVars, stage1Vars, runVars>>

RuleNext == RuleCheck

SpecRules == RuleInit /\ [][RuleNext]_vars

\* The rules of the engine, each stated on the lower-cased sender and subject.
AllowMatches(email) ==
    { i \in 1..Len(HIGH_PRIORITY_SENDERS) :
        Contains(LowerFrag(HIGH_PRIORITY_SENDERS[i].sender), Lower(email.from)) }
DenyMatches(email) ==
    { i \in 1..Len(TRASH_SENDERS) : Contains(LowerFrag(TRASH_SENDERS[i]), Lower(email.from)) }
ExamKeywordMatch(email) ==
    \E k \in 1..Len(exam_keywords) :
        \/ Contains(exam_keywords[k], Lower(email.subject))
        \/ Contains(exam_keywords[k], Lower(email.from))
PublishedAdMatch(email) ==
    \E w \in {"reprint", "order copies", "citation alert", "nearing publication"} :
        Contains(w, Lower(email.subject))
Least(S) == CHOOSE x \in S : \A y \in S : x <= y
RuleDone == re_result /= <<"pending", NoneInt>>

\* C8: _check_sender_priority returns the result of the first matching rule
\* in the order allowlist, denylist, exam keyword, advertisement phrase, and
\* (None, None) when no rule matches; a sender on both the allowlist and the
\* denylist gets the allowlist entry's category and importance, never TRASH.
C8_FirstMatchingRuleWins ==
    RuleDone =>
        LET allow == AllowMatches(re_email)
            deny  == DenyMatches(re_email) /= {}
            exam  == ExamKeywordMatch(re_email)
            ad    == PublishedAdMatch(re_email)
        IN  /\ allow /= {} =>
                /\ re_result = << HIGH_PRIORITY_SENDERS[Least(allow)].category,
                                  HIGH_PRIORITY_SENDERS[Least(allow)].importance >>
                /\ re_result[1] /= "TRASH"
            /\ (allow = {} /\ deny) => re_result = <<"TRASH", 1>>
            /\ (allow = {} /\ ~deny /\ exam) => re_result = <<"EXAM", 5>>
            /\ (allow = {} /\ ~deny /\ ~exam /\ ad) => re_result = <<"TRASH", 1>>
            /\ (allow = {} /\ ~deny /\ ~exam /\ ~ad) => re_result = <<None, NoneInt>>

\* A sender with the allowlist entries ielts and britishcouncil and the
\* denylist entry noreply has been classified EXAM with importance 5.
C8_Witness ==
    /\ RuleDone
    /\ Contains("ielts", Lower(re_email.from))
    /\ Contains("britishcouncil", Lower(re_email.from))
    /\ Contains("noreply", Lower(re_email.from))
    /\ re_result = <<"EXAM", 5>>

\* C9: a message that matches a rule yielding EXAM or BILLING (an allowlisted
\* sender, or an exam keyword in its subject or sender) is never given TRASH
\* by the rule engine, also when its sender contains a denylist entry.
C9_SafetyCriticalNeverTrash ==
    (RuleDone /\ (AllowMatches(re_email) /= {} \/ ExamKeywordMatch(re_email)))
        => re_result[1] /= "TRASH"

(***************************************************************************)
(* SpecMarkers: any sequence of mark_processed calls                       *)
(***************************************************************************)
MaxCalls == 3

MarkerIds == { "", "<m1@x>", "<m2@x>" }

\* The arguments of a call besides message_id.  <<None>> is subject=None;
\* Chars(201, 201) is a subject of 201 characters.
MarkerPayloads ==
    { [account |-> "QQ",  subject |-> <<"hello">>,     stage1_result |-> "TRASH",
       stage2_category |-> None,               synced |-> FALSE, marked_read |-> TRUE],
      [account |-> "PKU", subject |-> Chars(201, 201), stage1_result |-> "PAPER",
       stage2_category |-> "Paper/InProgress", synced |-> TRUE,  marked_read |-> TRUE],
      [account |-> "QQ",  subject |-> <<None>>,        stage1_result |-> "BILLING",
       stage2_category |-> None,               synced |-> TRUE,  marked_read |-> FALSE],
      [account |-> "PKU", subject |-> <<>>,            stage1_result |-> "UNKNOWN",
       stage2_category |-> "TRASH",            synced |-> FALSE, marked_read |-> FALSE] }

MarkerCall(id, p) ==
    [ message_id |-> id, account |-> p.account, subject |-> p.subject,
      stage1_result |-> p.stage1_result, stage2_category |-> p.stage2_category,
      synced |-> p.synced, marked_read |-> p.marked_read ]

MarkInit == MarkerIdle /\ RuleIdle /\ Stage1Idle /\ RunIdle /\ PureIdle

MarkProcessed ==
    \E id \in MarkerIds, p \in MarkerPayloads :
        /\ Len(mk_hist) < MaxCalls
        /\ markers' = mark_processed(markers, MarkerCall(id, p))
        /\ mk_hist' = Append(mk_hist, MarkerCall(id, p))
        /\ UNCHANGED <<pureVars, ruleVars, stage1Vars, runVars>>

MarkNext == MarkProcessed

SpecMarkers == MarkInit /\ [][MarkNext]_vars

\* The positions of the calls made for the identifier m.
CallsFor(m) == {i \in 1..Len(mk_hist) : mk_hist[i].message_id = m}
Greatest(S) == CHOOSE x \in S : \A y \in S : y <= x

\* C2: for every non-empty message identifier m the store holds at most one
\* row, none before the first mark_processed call for m, and afterwards the
\* row carries the values of the last call for m (the subject cut to 200
\* characters, the flags as 0/1): last write wins, nothing is appended.
C2_OneRowLastWriteWins ==
    \A m \in MarkerIds \ {""} :
        LET rows == {r \in markers : r.message_id = m}
        IN  /\ Cardinality(rows) <= 1
            /\ CallsFor(m) = {} => rows = {}
            /\ CallsFor(m) /= {} =>
                 LET c == mk_hist[Greatest(CallsFor(m))]
                 IN  /\ Cardinality(rows) = 1
                     /\ \A r \in rows :
                          /\ r.account = c.account
                          /\ r.subject = (IF c.subject = <<None>> THEN <<>>
                                          ELSE SubSeq(c.subject, 1,
                                                 IF Len(c.subject) < 200
                                                 THEN Len(c.subject) ELSE 200))
                          /\ r.stage1_result = c.stage1_result
                          /\ r.stage2_category = c.stage2_category
                          /\ (r.synced_to_notion = 1) = c.synced
                          /\ (r.marked_read = 1) = c.marked_read

\* Two calls for one identifier with payloads that differ in every field have
\* been made, and the single row of the identifier carries the second's.
C2_Witness ==
    \E i, j \in 1..Len(mk_hist) :
        /\ i < j /\ j = Greatest(CallsFor(mk_hist[j].message_id))
        /\ mk_hist[i].message_id = mk_hist[j].message_id
        /\ mk_hist[j].message_id /= ""
        /\ mk_hist[i].account /= mk_hist[j].account
        /\ mk_hist[i].synced /= mk_hist[j].synced
        /\ mk_hist[i].stage1_result /= mk_hist[j].stage1_result
        /\ \E r \in markers :
             /\ r.message_id = mk_hist[j].message_id
             /\ r.account = mk_hist[j].account
             /\ r.stage1_result = mk_hist[j].stage1_result

(***************************************************************************)
(* SpecStage1: stage1_classify_batch on lists of up to MaxS1Emails emails  *)
(***************************************************************************)
MaxS1Emails == 11

LlmMail   == [from |-> <<"editor", "@", "elsevier.com">>, subject |-> <<"decision">>,
              s1cat |-> Absent, importance |-> NoneInt]
AllowMail == [from |-> <<"ielts", "@", "britishcouncil", ".org">>, subject |-> <<"hello">>,
              s1cat |-> Absent, importance |-> NoneInt]
DenyMail  == [from |-> <<"aliyun", "@", "notice.aliyun.com">>, subject |-> <<"hello">>,
              s1cat |-> Absent, importance |-> NoneInt]

S1Patterns == { "llm", "rule", "mixed" }

S1Mail(p, i) ==
    CASE p = "llm"   -> LlmMail
      [] p = "rule"  -> IF i % 2 = 0 THEN DenyMail ELSE AllowMail
      [] p = "mixed" -> IF i % 2 = 1 THEN LlmMail
                        ELSE IF i % 4 = 0 THEN DenyMail ELSE AllowMail

S1Lists == { [i \in 1..n |-> S1Mail(p, i)] : n \in 0..MaxS1Emails, p \in S1Patterns }

Resp(kind, items) == [kind |-> kind, items |-> items]

\* An array answering every index 1..k with category c.
Full(k, c) == [i \in 1..k |-> Obj(i, c)]

\* The seq without its j-th element.
Without(seq, j) == SubSeq(seq, 1, j - 1) \o SubSeq(seq, j + 1, Len(seq))

\* The LLM outcomes tried for a sub-batch that sends k messages to the LLM.
S1Responses(k) ==
    { Resp("raise", <<>>), Resp("none", <<>>), Resp("object", <<>>), Resp("array", <<>>) }
    \cup { Resp("array", Full(k, c)) : c \in {"PAPER", "Trash", "spam"} }
    \cup { Resp("array", Without(Full(k, "PAPER"), j)) : j \in 1..k }
    \cup { Resp("array", [Full(k, "REVIEW") EXCEPT ![j].category = Absent]) : j \in 1..k }
    \cup { Resp("array", [Full(k, "NOTICE") EXCEPT ![1].category = "null"]),
           Resp("array", [Full(k, "NOTICE") EXCEPT ![k].kind = "num"]),
           Resp("array", [i \in 1..k |-> [Obj(i, "EXAM") EXCEPT !.id_is_str = TRUE]]),
           Resp("array", Full(k, "PERSONAL") \o <<Obj(1, "BILLING")>>) }

NoCall == Resp("nocall", <<>>)

Stage1Init ==
    /\ s1_emails \in S1Lists
    /\ s1_start = 0
    /\ s1_log = <<>>
    /\ RuleIdle /\ MarkerIdle /\ RunIdle /\ PureIdle

\* One iteration of the loop of stage1_classify_batch.
Stage1SubBatch ==
    /\ s1_start >= 0 /\ s1_start < Len(s1_emails)
    /\ LET total     == Len(s1_emails)
           batch_end == BatchEnd(s1_start, total)
           batch     == SubSeq(s1_emails, s1_start + 1, batch_end)
       IN  \E resp \in (IF CallsLlm(batch)
                        THEN S1Responses(Len(NeedsLlm(batch))) ELSE {NoCall}) :
              /\ s1_emails' = SubSeq(s1_emails, 1, s1_start)
                              \o classify_batch_internal(batch, resp)
                              \o SubSeq(s1_emails, batch_end + 1, total)
              /\ s1_log' = Append(s1_log, resp)
              /\ s1_start' = s1_start + batch_size
    /\ UNCHANGED <<pureVars, ruleVars, markerVars, runVars>>

\* The return of stage1_classify_batch (at once for an empty list).
Stage1Return ==
    /\ s1_start >= Len(s1_emails)
    /\ s1_start' = -1
    /\ UNCHANGED <<pureVars, s1_emails, s1_log, ruleVars, markerVars, runVars>>

Stage1Next == Stage1SubBatch \/ Stage1Return

SpecStage1 == Stage1Init /\ [][Stage1Next]_vars

\* The sub-batch (1-based) the position p of the list falls in, and the
\* positions of that sub-batch.
SubBatchOf(p) == ((p - 1) \div batch_size) + 1
SubBatchPositions(b) ==
    {p \in 1..Len(s1_emails) : SubBatchOf(p) = b}
RuleResolved(p) == check_sender_priority(s1_emails[p])[1] /= None
\* The number the message at p has in the prompt of its sub-batch.
PromptIndex(p) ==
    Cardinality({q \in SubBatchPositions(SubBatchOf(p)) : q <= p /\ ~RuleResolved(q)})
\* The LLM of a sub-batch gave no usable array.
LlmFailed(resp) ==
    \/ resp.kind \in {"raise", "none", "object"}
    \/ resp.kind = "array" /\ resp.items = <<>>
    \/ resp.kind = "array" /\ \E k \in 1..Len(resp.items) :
          \/ resp.items[k].kind = "num"
          \/ resp.items[k].id /= 0 /\ resp.items[k].category = "null"
HasEntry(resp, i) ==
    \E k \in 1..Len(resp.items) :
        /\ resp.items[k].kind = "obj" /\ resp.items[k].id = i
        /\ ~resp.items[k].id_is_str /\ resp.items[k].category /= Absent

\* C10: after stage1_classify_batch returns, every message of the list
\* carries a Stage-1 category; a message the rule engine did not resolve is
\* UNKNOWN when the LLM call raised, when the response gave no non-empty
\* array, or when the array has no entry for the message's index.
C10_EveryMessageAnnotated ==
    s1_start = -1 =>
        \A p \in 1..Len(s1_emails) :
            /\ s1_emails[p].s1cat /= Absent
            /\ ~RuleResolved(p) =>
                 LET resp == s1_log[SubBatchOf(p)]
                 IN  /\ LlmFailed(resp) => s1_emails[p].s1cat = "UNKNOWN"
                     /\ (~LlmFailed(resp) /\ ~HasEntry(resp, PromptIndex(p)))
                            => s1_emails[p].s1cat = "UNKNOWN"

\* The call has returned for a list of two sub-batches: the LLM call of the
\* first raised, and the array of the second has no entry for its message.
C10_Witness ==
    /\ s1_start = -1
    /\ Len(s1_log) = 2
    /\ s1_log[1].kind = "raise"
    /\ s1_log[2].kind = "array" /\ s1_log[2].items /= <<>>
    /\ \E p \in 1..batch_size : ~RuleResolved(p) /\ s1_emails[p].s1cat = "UNKNOWN"
    /\ \E p \in SubBatchPositions(2) :
          /\ ~RuleResolved(p) /\ ~LlmFailed(s1_log[2])
          /\ ~HasEntry(s1_log[2], PromptIndex(p))
          /\ s1_emails[p].s1cat = "UNKNOWN"

\* C11: after stage1_classify_batch returns, the Stage-1 category of every
\* message is one of the eight labels, whatever the LLM answered.
C11_CategoryIsOneOfEightLabels ==
    s1_start = -1 => \A p \in 1..Len(s1_emails) : s1_emails[p].s1cat \in Stage1Labels

\* The category the array of a sub-batch gives the prompt index i: that of
\* the last entry for i.
AnsweredCategory(resp, i) ==
    LET hits == {k \in 1..Len(resp.items) :
                    /\ resp.items[k].kind = "obj" /\ resp.items[k].id = i
                    /\ ~resp.items[k].id_is_str /\ resp.items[k].category /= Absent}
    IN  Upper(resp.items[CHOOSE k \in hits : \A h \in hits : h <= k].category)

\* What the message at p is to carry, read from the rule engine and from the
\* LLM outcome of its own sub-batch only.
OwnSubBatchCategory(p) ==
    IF RuleResolved(p) THEN check_sender_priority(s1_emails[p])[1]
    ELSE LET resp == s1_log[SubBatchOf(p)]
         IN  IF LlmFailed(resp) \/ ~HasEntry(resp, PromptIndex(p)) THEN "UNKNOWN"
             ELSE AnsweredCategory(resp, PromptIndex(p))

\* C12 as stated: when the LLM call of a sub-batch failed, every message of
\* that sub-batch is UNKNOWN.
C12_FailureDegradesWholeSubBatch ==
    s1_start = -1 =>
        \A b \in 1..Len(s1_log) :
            s1_log[b].kind = "raise" =>
                \A p \in SubBatchPositions(b) : s1_emails[p].s1cat = "UNKNOWN"

\* C12, amended: every sub-batch is processed, also after a failed one, and
\* each message carries what the rule engine and the LLM outcome of its own
\* sub-batch give it: a failed LLM call makes UNKNOWN the messages of its
\* sub-batch that the rule engine did not resolve, the rule-resolved ones keep
\* the rule's category, and the other sub-batches are as without the failure.
C12_SubBatchIsolation ==
    s1_start = -1 =>
        /\ Len(s1_log) = (Len(s1_emails) + batch_size - 1) \div batch_size
        /\ \A p \in 1..Len(s1_emails) : s1_emails[p].s1cat = OwnSubBatchCategory(p)

\* The LLM call of the first sub-batch raised: its rule-resolved message keeps
\* EXAM, its other messages are UNKNOWN, and the message of the second
\* sub-batch has the category the LLM gave it.
C12_Witness ==
    /\ s1_start = -1
    /\ Len(s1_log) = 2
    /\ s1_log[1].kind = "raise"
    /\ s1_emails[1].s1cat = "UNKNOWN" /\ s1_emails[2].s1cat = "EXAM"
    /\ ~LlmFailed(s1_log[2])
    /\ s1_emails[MaxS1Emails].s1cat = "PAPER"

(***************************************************************************)
(* Spec: successive calls of check_and_process on a mailbox of NMsg unread *)
(* messages, the process being killed at most MaxCrashes times.  The LLM   *)
(* gives the same answer when it is asked about the same message again.    *)
(***************************************************************************)
NMsg == 2
MaxRuns == 2
MaxCrashes == 1
MaxPages == 2

\* Message 1 has an id; the others have none, their own, or that of message 1.
MsgIdSets == {ids \in [1..NMsg -> {"", "<m1@x>", "<m2@x>"}] : ids[1] = "<m1@x>"}

\* The Stage-1 categories the LLM gives: any one for the first message, and
\* for each other message the same one or TRASH.
S1Assignments ==
    {f \in [1..NMsg -> GroupNames] : \A i \in 2..NMsg : f[i] \in {f[1], "TRASH"}}

\* The paper the LLM reads out of message m: with a manuscript id for an odd
\* m, with a title of 51 characters and no manuscript id for an even m.
PaperItem(m) ==
    IF m % 2 = 1
    THEN [NoItem EXCEPT !.type = "paper", !.category = "Paper/InProgress",
                        !.title = <<"a">>, !.manuscript_id = <<"TGRS-2024-1234">>,
                        !.status = <<"Under Review">>,
                        !.venue_type = "journal", !.venue = <<"TGRS">>]
    ELSE [NoItem EXCEPT !.type = "paper", !.category = "Paper/Conference",
                        !.title = Chars(51, 0), !.status = <<"Major Revision">>,
                        !.venue_type = "conference", !.venue = <<"CVPR">>]
ReviewItem ==
    [NoItem EXCEPT !.type = "review", !.category = "Review/Active",
                   !.title = <<"a">>, !.status = <<"Invited">>, !.venue = <<"TGRS">>]
SpamItem(m) ==
    [PaperItem(m) EXCEPT !.category = "Trash/Published", !.is_published_spam = TRUE]

\* The Stage-2 answers tried for message m: no parsable answer; a paper; the
\* same with "summary": null (first message only); a review; a
\* published-paper advertisement without classification; an upper-case TRASH
\* classification without item.
S2Answers(m) ==
    { S2Answer(FALSE, NoItem, FALSE, Absent, NoneInt, Absent),
      S2Answer(TRUE, PaperItem(m), TRUE, "Paper/InProgress", 4, "True"),
      [S2Answer(TRUE, PaperItem(m), TRUE, "Paper/InProgress", 4, "True")
           EXCEPT !.raises = IF m = 1 THEN "summary" ELSE "no"],
      S2Answer(TRUE, ReviewItem, TRUE, "REVIEW", 3, "False"),
      S2Answer(TRUE, SpamItem(m), FALSE, Absent, NoneInt, Absent),
      S2Answer(TRUE, NoItem, TRUE, "TRASH", 1, "False") }

AllS2Answers == UNION {S2Answers(m) : m \in 1..NMsg}

S2Unasked == S2Answer(FALSE, NoItem, FALSE, Absent, NoneInt, "unasked")

CardBill == [name |-> "zh_cmb_card", type |-> "credit_card", period |-> "2026-01",
             amount |-> 100, status |-> "pending"]

\* The answers tried for parse_billing_emails: nothing, one bill, one bill
\* without a name.
BillAnswers == { <<>>, <<CardBill>>, <<[CardBill EXCEPT !.name = ""]>> }

\* What the remote calls of an upsert come to: all answered; the query
\* answered with an error status; the write answered with an error status.
UpsertIo ==
    { [db_ok |-> TRUE,  query |-> <<"ok">>,       write |-> <<"ok">>],
      [db_ok |-> TRUE,  query |-> <<"rejected">>, write |-> <<"ok">>],
      [db_ok |-> TRUE,  query |-> <<"ok">>,       write |-> <<"rejected">>] }

\* What the remote calls of sync_email come to: the create answered; it was
\* answered with an error status; it was carried out but all three attempts
\* raised.
SummaryIo ==
    { [db_ok |-> TRUE,  write |-> <<"ok">>],
      [db_ok |-> TRUE,  write |-> <<"rejected">>],
      [db_ok |-> TRUE,  write |-> <<"lost", "fail", "fail">>] }

Init ==
    /\ RuleIdle /\ MarkerIdle /\ Stage1Idle /\ PureIdle
    /\ unread = 1..NMsg
    /\ msg_ids \in MsgIdSets
    /\ msg_from = [i \in 1..NMsg |-> EditorFrom]
    /\ papers = <<>> /\ reviews = <<>> /\ bills = <<>> /\ summaries = <<>>
    /\ local_items = {} /\ local_records = {}
    /\ llm_s1 \in S1Assignments
    /\ llm_s2 = [i \in 1..NMsg |-> S2Unasked]
    /\ llm_bill = [asked |-> FALSE, items |-> <<>>]
    /\ run = IdleRun /\ run_no = 0 /\ crashes = 0
    /\ trace = NoTrace

Step(op, msgs, ok, performed, store_op, added) ==
    [trace EXCEPT !.op = op, !.msgs = msgs, !.ok = ok, !.performed = performed,
                  !.store_op = store_op, !.added = added]

EmailIds(r) == {r.new_emails[r.members[p]].email_id : p \in 1..Len(r.members)}

\* check_and_process up to the grouping: fetch, filter, Stage 1.
StartRun ==
    /\ run.pc = "idle"
    /\ run_no < MaxRuns
    /\ run_no' = run_no + 1
    /\ LET all_unread    == fetch_unread_emails(unread, msg_ids, msg_from)
           processed_ids == get_processed_ids(markers)
           new_emails    == NewEmails(all_unread, processed_ids)
           classified    == stage1_classify_batch(new_emails, llm_s1)
       IN  /\ run' = IF new_emails = <<>> THEN IdleRun
                     ELSE EnterPhase([IdleRun EXCEPT !.new_emails = classified], 1)
           /\ trace' = [NoTrace EXCEPT
                          !.op = "start",
                          !.msgs = {new_emails[p].email_id : p \in 1..Len(new_emails)},
                          !.excluded = {i \in unread : msg_ids[i] /= ""
                                                       /\ is_processed(markers, msg_ids[i])},
                          !.s1_prompts = Stage1Prompts(new_emails),
                          !.k_analysed = trace.k_analysed, !.k_marked = trace.k_marked,
                          !.k_upserted = trace.k_upserted,
                          !.k_summarised = trace.k_summarised]
    /\ UNCHANGED <<pureVars, ruleVars, markerVars, stage1Vars, unread, msg_ids, msg_from, storeVars,
                   localVars, llmVars, crashes>>

\* stage2_analyze_content of the section, and for STAGE2 the reading of the
\* analysis into items and class_map.
Analyze ==
    /\ run.pc = "analyze"
    /\ \E answers \in [1..Len(run.members) -> AllS2Answers] :
        LET id(i)     == run.new_emails[run.members[i]].email_id
            analysed  == [p \in 1..Len(run.new_emails) |->
                            IF \E i \in 1..Len(run.members) : run.members[i] = p
                            THEN analyze_single_email(run.new_emails[p],
                                    answers[CHOOSE i \in 1..Len(run.members) : run.members[i] = p])
                            ELSE run.new_emails[p]]
            r1        == [run EXCEPT !.new_emails = analysed]
            r2        == [r1 EXCEPT !.items = Stage2Items(answers),
                                    !.class_map = Stage2ClassMap(answers)]
        IN  /\ \A i \in 1..Len(run.members) :
                    /\ answers[i] \in S2Answers(id(i))
                    /\ llm_s2[id(i)] /= S2Unasked => answers[i] = llm_s2[id(i)]
            /\ llm_s2' = [m \in 1..NMsg |->
                            IF \E i \in 1..Len(run.members) : id(i) = m
                            THEN answers[CHOOSE i \in 1..Len(run.members) : id(i) = m]
                            ELSE llm_s2[m]]
            /\ run' = IF Phase(run) = "STAGE2" THEN EnterItem(r2, 1) ELSE EnterMessage(r1, 1)
            /\ trace' = [Step("analyze", EmailIds(run), TRUE, 0, "none", 0) EXCEPT
                            !.analysed = trace.analysed \cup EmailIds(run)]
    /\ UNCHANGED <<pureVars, ruleVars, markerVars, stage1Vars, unread, msg_ids, msg_from, storeVars,
                   localVars, llm_s1, llm_bill, run_no, crashes>>

\* One iteration of the loop of AcademicProcessor.process that upserts.
AcademicItem ==
    /\ run.pc = "academic"
    /\ \E io \in UpsertIo :
        LET item   == run.items[run.ipos]
            target == AcademicTarget(item)
            res    == IF target = "papers" THEN sync_paper(papers, item, io)
                      ELSE sync_review(reviews, item, io)
            before == IF target = "papers" THEN Len(papers) ELSE Len(reviews)
            msgs   == {run.new_emails[run.members[item.source_emails]].email_id}
        IN  /\ Len(res.pages) <= MaxPages
            /\ papers'  = IF target = "papers" THEN res.pages ELSE papers
            /\ reviews' = IF target = "papers" THEN reviews ELSE res.pages
            /\ run' = EnterItem(run, run.ipos + 1)
            /\ trace' = [Step("upsert", msgs, res.ok, 0, res.op, Len(res.pages) - before) EXCEPT
                            !.upserted = IF res.ok THEN trace.upserted \cup msgs
                                         ELSE trace.upserted]
    /\ UNCHANGED <<pureVars, ruleVars, markerVars, stage1Vars, unread, msg_ids, msg_from, bills, summaries,
                   localVars, llmVars, run_no, crashes>>

\* parse_billing_emails of the BILLING section.
BillingParse ==
    /\ run.pc = "billing_parse"
    /\ \E answer \in BillAnswers :
        /\ llm_bill.asked => answer = llm_bill.items
        /\ llm_bill' = [asked |-> TRUE, items |-> answer]
        /\ run' = EnterBill([run EXCEPT !.bill_items = answer], 1)
        /\ trace' = Step("parse", EmailIds(run), TRUE, 0, "none", 0)
    /\ UNCHANGED <<pureVars, ruleVars, markerVars, stage1Vars, unread, msg_ids, msg_from, storeVars,
                   localVars, llm_s1, llm_s2, run_no, crashes>>

\* One iteration of the loop of BillingProcessor.process for a named item.
BillingItem ==
    /\ run.pc = "billing_items"
    /\ \E io \in UpsertIo :
        LET item    == run.bill_items[run.ipos]
            res     == sync_to_notion(bills, item, item.period, io)
            found   == find_existing_record(bills, item.name, item.period, io.query)
            page_id == IF found /= 0 THEN found ELSE Len(res.pages)
            created == get_or_create_item(local_items, item.name, item.type)
        IN  /\ Len(res.pages) <= MaxPages
            /\ local_items' = IF res.ok THEN update_item_notion_id(created, item.name, page_id)
                              ELSE created
            /\ local_records' = IF item.period /= ""
                                THEN add_or_update_record(local_records, item.name, item.period,
                                                          item.amount, None, item.status,
                                                          None, None).records
                                ELSE local_records
            /\ bills' = res.pages
            /\ run' = EnterBill(run, run.ipos + 1)
            /\ trace' = [Step("upsert", EmailIds(run), res.ok, 0, res.op,
                              Len(res.pages) - Len(bills)) EXCEPT
                            !.upserted = IF res.ok THEN trace.upserted \cup EmailIds(run)
                                         ELSE trace.upserted]
    /\ UNCHANGED <<pureVars, ruleVars, markerVars, stage1Vars, unread, msg_ids, msg_from, papers, reviews,
                   summaries, llmVars, run_no, crashes>>

\* The sync_email call of the loop body.
SyncEmail ==
    /\ CurStep(run) = "sync"
    /\ \E io \in SummaryIo :
        LET email == LoopEmail(run)
            args  == SyncArgs(run)
            res   == sync_email(summaries, email, args.category, args.importance,
                                args.needs_action, io)
            added == Len(res.pages) - Len(summaries)
        IN  /\ Len(res.pages) <= MaxPages
            /\ summaries' = res.pages
            /\ run' = StepDone(run)
            /\ trace' = [Step("sync_email", {email.email_id}, res.ok,
                              IF io.db_ok THEN TimesPerformed(io.write) ELSE 0,
                              res.op, added) EXCEPT
                            !.summarised = IF added > 0
                                           THEN trace.summarised \cup {email.email_id}
                                           ELSE trace.summarised,
                            !.sync_failed = IF res.ok
                                            THEN trace.sync_failed \ {email.email_id}
                                            ELSE trace.sync_failed \cup {email.email_id}]
    /\ UNCHANGED <<pureVars, ruleVars, markerVars, stage1Vars, unread, msg_ids, msg_from, papers, reviews, bills,
                   localVars, llmVars, run_no, crashes>>

\* The mark_processed call of the loop body.
Mark ==
    /\ CurStep(run) = "mark"
    /\ markers' = mark_processed(markers, MarkArgs(run))
    /\ run' = StepDone(run)
    /\ trace' = [Step("mark", {LoopEmail(run).email_id}, TRUE, 0, "none", 0) EXCEPT
                    !.marked = trace.marked \cup {LoopEmail(run).email_id}]
    /\ UNCHANGED <<pureVars, ruleVars, mk_hist, stage1Vars, unread, msg_ids, msg_from, storeVars,
                   localVars, llmVars, run_no, crashes>>

\* The mark_as_read call: of the loop body, or the one after the loop of the
\* PERSONAL section, for the last email of the loop.  It returns False and
\* leaves the message unread when the IMAP command fails.
Read ==
    /\ \/ CurStep(run) = "read"
       \/ run.pc = "personal_read"
    /\ \E ok \in BOOLEAN :
        /\ unread' = IF ok THEN unread \ {LoopEmail(run).email_id} ELSE unread
        /\ trace' = [Step("read", {LoopEmail(run).email_id}, ok, 0, "none", 0) EXCEPT
                        !.read = trace.read \cup {LoopEmail(run).email_id}]
    /\ run' = IF run.pc = "personal_read" THEN EnterPhase(run, run.k + 1) ELSE StepDone(run)
    /\ UNCHANGED <<pureVars, ruleVars, markerVars, stage1Vars, msg_ids, msg_from, storeVars,
                   localVars, llmVars, run_no, crashes>>

\* The process is killed during a run: the local variables are lost, the
\* marker store, the mailbox and the remote stores stay as they are.
Crash ==
    /\ run.pc /= "idle"
    /\ crashes < MaxCrashes
    /\ run_no < MaxRuns
    /\ crashes' = crashes + 1
    /\ run' = IdleRun
    /\ trace' = [NoTrace EXCEPT
                    !.op = "crash",
                    !.k_analysed   = trace.analysed \ trace.read,
                    !.k_marked     = {m \in trace.marked \ trace.read : msg_ids[m] /= ""},
                    !.k_upserted   = trace.upserted \ trace.marked,
                    !.k_summarised = trace.summarised \ trace.marked]
    /\ UNCHANGED <<pureVars, ruleVars, markerVars, stage1Vars, unread, msg_ids, msg_from, storeVars,
                   localVars, llmVars, run_no>>

Next ==
    \/ StartRun \/ Analyze \/ AcademicItem \/ BillingParse \/ BillingItem
    \/ SyncEmail \/ Mark \/ Read \/ Crash

Spec == Init /\ [][Next]_vars

\* The email ids of the new set of the run.
NewIds == {run.new_emails[p].email_id : p \in 1..Len(run.new_emails)}

\* The messages the current run has analysed, synced or marked.
Touched ==
    trace.analysed \cup trace.upserted \cup trace.summarised \cup trace.sync_failed
        \cup trace.marked \cup trace.read

\* The rows of the marker store for message m.
MarkerRows(m) == {row \in markers : row.message_id = msg_ids[m]}

\* The pages of the summary store made for message m.
SummaryRows(m) ==
    {j \in 1..Len(summaries) :
        /\ summaries[j].subject = Take(FetchedEmail(m, msg_ids, msg_from).subject, 100)
        /\ summaries[j].account = FetchedEmail(m, msg_ids, msg_from).account}

\* C1: a fetched unread message whose non-empty message id had a marker when
\* the run started (whatever the marker's synced flag) is not in the run's
\* new set, and the run makes no Stage-2 call, no remote write, no marker
\* write and no mark-read request for it.
C1_MarkedMessagesExcluded ==
    \A m \in trace.excluded :
        /\ m \notin NewIds
        /\ m \notin Touched
        /\ m \notin trace.msgs

\* A second run is working on a message while it has excluded another one,
\* whose marker says "not synced".
C1_Witness ==
    /\ run_no = 2 /\ run.pc = "loop"
    /\ \E m \in trace.excluded : m \in unread /\ \E row \in MarkerRows(m) : row.synced_to_notion = 0

\* C3: within a run no remote sync (item upsert, message-summary sync) is made
\* for a message after the mark_processed call for it, and a mark-read
\* request is made only for a message that mark_processed was called for (so
\* that its row exists when it has a message id).
C3_SyncThenMarkerThenRead ==
    /\ trace.op \in {"upsert", "sync_email"} => trace.msgs \cap trace.marked = {}
    /\ trace.op = "read" =>
          \A m \in trace.msgs : /\ m \in trace.marked
                                /\ msg_ids[m] /= "" => MarkerRows(m) /= {}

\* A mark-read request for a message whose item was upserted and whose
\* summary was synced in this run.
C3_Witness ==
    /\ trace.op = "read"
    /\ \E m \in trace.msgs : m \in trace.upserted /\ m \in trace.summarised /\ MarkerRows(m) /= {}

\* C4: when sync_email returned the failure indicator for a message, the
\* marker the run then writes for it has the synced flag false.
C4_FailedSyncMarkedUnsynced ==
    trace.op = "mark" =>
        \A m \in trace.msgs \cap trace.sync_failed :
            \A row \in MarkerRows(m) : row.synced_to_notion = 0

\* C5 as stated: a message with an id that a killed run had analysed in
\* Stage 2 and not yet asked to be marked read is not in the new set of a
\* later run.
C5_AnalysedThenKilledExcluded ==
    \A m \in trace.k_analysed : msg_ids[m] /= "" => m \notin NewIds

\* C5, amended: a message with an id for which a killed run had written the
\* marker and not yet asked to be marked read is not in the new set of a later
\* run, which neither analyses nor syncs it.
C5_MarkedThenKilledExcluded ==
    \A m \in trace.k_marked : m \notin NewIds /\ m \notin Touched

\* A later run has started with such a message still unread, and is working
\* on another one.
C5_Witness ==
    /\ run.pc /= "idle"
    /\ \E m \in trace.k_marked : m \in unread /\ m \in trace.excluded

\* C6: the upsert of an item for a message whose item upsert had succeeded in
\* a killed run before the marker write issues an update and adds no page.
C6_ReupsertUpdates ==
    (trace.op = "upsert" /\ trace.msgs \cap trace.k_upserted /= {})
        => (trace.store_op = "PATCH" /\ trace.added = 0)

\* C7: a sync_email call adds one page for each time the store carries out
\* its write and leaves the existing pages as they are; and when the summary
\* of a message was created in a killed run before the marker write and is
\* created again in a later run, the store holds two pages for the message.
C7_SummaryAlwaysCreated ==
    /\ [][trace'.op = "sync_email" =>
            /\ Len(summaries') = Len(summaries) + trace'.performed
            /\ SubSeq(summaries', 1, Len(summaries)) = summaries]_vars
    /\ [](\A m \in trace.k_summarised \cap trace.summarised :
            Cardinality(SummaryRows(m)) >= 2)

\* Two pages for a message whose summary was created before the process was
\* killed and again by the next run.
C7_Witness ==
    \E m \in trace.k_summarised \cap trace.summarised :
        /\ Cardinality(SummaryRows(m)) = 2
        /\ \A j \in SummaryRows(m) : summaries[j].from = FetchedEmail(m, msg_ids, msg_from).from


\* The loop is about to write the marker of a message.
AtMark == CurStep(run) = "mark"
\* The Stage-2 answer for the message the loop is at.
LoopAnswer == llm_s2[LoopEmail(run).email_id]
\* Stage 2 was not run for the message, or gave no classification with a
\* category for it.
NoStage2Category ==
    \/ Phase(run) \in {"TRASH", "BILLING"}
    \/ ~(Returned(LoopAnswer) /\ LoopAnswer.has_cls /\ LoopAnswer.category /= Absent)
\* The _final_category annotation the analysis left, Absent for none.
LeftAnnotation(ans) ==
    IF ~ans.ok \/ ans.raises = "classification" THEN Absent
    ELSE IF ans.raises = "no" /\ ans.item.type /= "none" /\ ans.item.is_published_spam
    THEN "Trash/Published"
    ELSE IF ans.has_cls /\ ans.category /= Absent THEN ans.category
    ELSE "Unknown"

\* C17 as stated: when Stage 2 was not run for a message or produced no
\* classification for it, the final category used by reconciliation and the
\* Stage-2 category written to its marker equal its Stage-1 category.
C17_DefaultsToStage1Category ==
    (AtMark /\ NoStage2Category) =>
        /\ MarkArgs(run).stage2_category = MarkArgs(run).stage1_result
        /\ Phase(run) = "STAGE2" => FinalCategory(run) = LoopEmail(run).s1cat

\* C17 as the code has it: for a Stage-2 message without classification the
\* final category is the annotation the analysis left on the message, and
\* the literal "Unknown" when it left none; the marker's Stage-2 category is
\* the category of the message's item if it has one, else that final
\* category; the marker of a message of the other sections (Stage 2 not run:
\* trash, billing; run without classification: notice, exam, personal) has
\* no Stage-2 category.  The Stage-1 category is used in neither case.
C17_DefaultsToUnknown ==
    (AtMark /\ NoStage2Category) =>
        IF Phase(run) /= "STAGE2"
        THEN /\ MarkArgs(run).stage2_category = None
             /\ Phase(run) \in {"TRASH", "BILLING"} => LoopEmail(run).final_category = Absent
        ELSE /\ FinalCategory(run) = (IF LeftAnnotation(LoopAnswer) = Absent THEN "Unknown"
                                      ELSE LeftAnnotation(LoopAnswer))
             /\ MarkArgs(run).stage2_category =
                    (IF Returned(LoopAnswer) /\ LoopAnswer.item.type /= "none"
                     THEN LoopAnswer.item.category ELSE FinalCategory(run))

C17_Witness ==
    /\ AtMark /\ Phase(run) = "STAGE2"
    /\ ~LoopAnswer.ok
    /\ LoopEmail(run).s1cat = "PAPER"
    /\ FinalCategory(run) = "Unknown"
    /\ MarkArgs(run).stage2_category = "Unknown"

(***************************************************************************)
(* SpecExtract: extract_json_from_text applied to LLM answers.             *)
(*                                                                         *)
(* An answer is built of up to MaxSegments segments separated by           *)
(* whitespace: prose, a bare JSON text, or a fenced code block with no     *)
(* tag, the tag json or another tag.                                       *)
(***************************************************************************)
MaxSegments == 3

JsonObject         == <<"{", "str", ":", "num", "}">>
JsonObject2        == <<"{", "str", ":", "str", "}">>
JsonArray          == <<"[", "num", ",", "num", "]">>
NotJson            == <<"{", "str", ":", "}">>
JsonValues == {JsonObject, JsonObject2, JsonArray}
Bodies     == JsonValues \cup {NotJson}
\* Prose: plain words, a bracketed reference, a braced placeholder.
Proses     == {<<"word">>, <<"word", "[", "num", "]">>, <<"{", "word", "}">>}
Tags       == {"", "json", "py"}

Segment(kind, tag, body) == [kind |-> kind, tag |-> tag, body |-> body]
Segments ==
    {Segment("prose", "", b) : b \in Proses}
        \cup {Segment("bare", "", b) : b \in Bodies}
        \cup {Segment("block", tag, b) : tag \in Tags, b \in Bodies}

Render(seg) ==
    IF seg.kind = "block"
    THEN <<Fence>> \o (IF seg.tag = "" THEN <<>> ELSE <<seg.tag>>) \o <<"ws">>
             \o seg.body \o <<"ws", Fence>>
    ELSE seg.body

RECURSIVE RenderAll(_)
RenderAll(segs) ==
    IF segs = <<>> THEN <<>>
    ELSE IF Len(segs) = 1 THEN Render(segs[1])
    ELSE Render(segs[1]) \o <<"ws">> \o RenderAll(Tail(segs))

ExtractPending == <<"pending", <<>>>>

ExtractInit ==
    /\ \E n \in 0..MaxSegments : \E segs \in [1..n -> Segments] :
         \E expect_array \in BOOLEAN :
           fn_in = [segs |-> segs, text |-> RenderAll(segs), expect_array |-> expect_array]
    /\ fn_out = ExtractPending
    /\ RuleIdle /\ MarkerIdle /\ Stage1Idle /\ RunIdle

Extract ==
    /\ fn_out = ExtractPending
    /\ fn_out' = extract_json_from_text(fn_in.text, fn_in.expect_array)
    /\ UNCHANGED <<fn_in, ruleVars, markerVars, stage1Vars, runVars>>

ExtractNext == Extract
SpecExtract == ExtractInit /\ [][ExtractNext]_vars

IsArray(v) == v[1] = "["
FlagMatches(v) == fn_in.expect_array = IsArray(v)
\* The answer is one fenced block holding the JSON value v.
FencedValue(v) ==
    /\ Len(fn_in.segs) = 1
    /\ fn_in.segs[1].kind = "block" /\ fn_in.segs[1].body = v
\* The answer is the JSON value v with prose before it, after it or both.
ValueInProse(v) ==
    /\ \E k \in 1..Len(fn_in.segs) :
         /\ fn_in.segs[k] = Segment("bare", "", v)
         /\ \A j \in 1..Len(fn_in.segs) : j /= k => fn_in.segs[j].kind = "prose"
    /\ Len(fn_in.segs) > 1

\* C13: for every valid JSON object or array v, the function returns v when
\* the answer is v in a fenced code block and when it is v surrounded by
\* arbitrary prose, expect_array matching the kind of v.
C13_WrappedValueRecovered ==
    fn_out /= ExtractPending =>
        \A v \in JsonValues :
            (FlagMatches(v) /\ (FencedValue(v) \/ ValueInProse(v)))
                => fn_out = <<"value", v>>

\* What holds of the code: v is returned from a fenced block whatever the
\* tag, and from prose that holds none of the delimiters the last strategy
\* searches for.
ProseWithoutDelimiters ==
    \A j \in 1..Len(fn_in.segs) :
        fn_in.segs[j].kind = "prose" =>
            \A i \in 1..Len(fn_in.segs[j].body) :
                fn_in.segs[j].body[i] \notin {"[", "]", "{", "}"}
ExtractRecoversFromPlainProse ==
    fn_out /= ExtractPending =>
        \A v \in JsonValues :
            (FlagMatches(v) /\ (FencedValue(v) \/ (ValueInProse(v) /\ ProseWithoutDelimiters)))
                => fn_out = <<"value", v>>

\* The strategies as the specification lists them: the whole trimmed text,
\* the content of every fenced block in order of appearance whatever its
\* tag, the span from the first opening to the last closing delimiter.
BlockBodies(segs) ==
    LET blocks == SelectSeq(segs, LAMBDA seg : seg.kind = "block")
    IN  [k \in 1..Len(blocks) |-> blocks[k].body]
OuterSpan(t, expect_array) ==
    LET open   == IF expect_array THEN "[" ELSE "{"
        close  == IF expect_array THEN "]" ELSE "}"
        firsts == {i \in 1..Len(t) : t[i] = open}
        lasts  == {i \in 1..Len(t) : t[i] = close}
    IN  IF firsts /= {} /\ lasts /= {} /\ SetMax(lasts) > SetMin(firsts)
        THEN <<SubSeq(t, SetMin(firsts), SetMax(lasts))>>
        ELSE <<>>
FirstThatParses(candidates) ==
    LET ok == {k \in 1..Len(candidates) : json_loads(candidates[k])[1] = "value"}
    IN  IF ok = {} THEN ExtractNone ELSE json_loads(candidates[SetMin(ok)])
ListedStrategies ==
    IF fn_in.text = <<>> THEN <<>>
    ELSE <<strip(fn_in.text)>> \o BlockBodies(fn_in.segs)
             \o OuterSpan(strip(fn_in.text), fn_in.expect_array)

BlockTexts(segs) ==
    LET blocks == SelectSeq(segs, LAMBDA seg : seg.kind = "block")
    IN  [k \in 1..Len(blocks) |->
            IF blocks[k].tag \in {"", "json"} THEN blocks[k].body
            ELSE <<blocks[k].tag, "ws">> \o blocks[k].body]
TriedStrategies ==
    IF fn_in.text = <<>> THEN <<>>
    ELSE <<strip(fn_in.text)>> \o BlockTexts(fn_in.segs)
             \o OuterSpan(strip(fn_in.text), fn_in.expect_array)

MaxS2Emails == 3

Stage2Paper == S2Answer(TRUE, PaperItem(1), TRUE, "Paper/InProgress", 4, "True")
Stage2Spam  == S2Answer(TRUE, SpamItem(1), TRUE, "PAPER", 5, "True")
\* The answers tried for a message: no parsable answer; a paper; an
\* advertisement for a published paper classified as PAPER, importance 5,
\* action needed; the same with "summary": null; an advertisement with
\* "classification": null; a classification with a string for "item"; a
\* classification alone; an item alone.
Stage2Specimens ==
    { S2Answer(FALSE, NoItem, FALSE, Absent, NoneInt, Absent),
      Stage2Paper,
      Stage2Spam,
      [Stage2Spam EXCEPT !.raises = "summary"],
      [S2Answer(TRUE, SpamItem(1), FALSE, Absent, NoneInt, Absent)
           EXCEPT !.raises = "classification"],
      [S2Answer(TRUE, NoItem, TRUE, "NOTICE", 3, "False") EXCEPT !.raises = "item"],
      S2Answer(TRUE, NoItem, TRUE, "NOTICE", 3, "False"),
      S2Answer(TRUE, PaperItem(2), FALSE, Absent, NoneInt, Absent) }

Stage2Emails(n) ==
    [i \in 1..n |-> [FetchedEmail(i, [k \in 1..n |-> "<m@x>"], [k \in 1..n |-> EditorFrom]) EXCEPT !.s1cat = "PAPER"]]

Stage2Init ==
    /\ \E n \in 0..MaxS2Emails : \E answers \in [1..n -> Stage2Specimens] :
         /\ fn_in = [emails |-> Stage2Emails(n), answers |-> answers]
         /\ fn_out = [pc |-> "loop",
                      st |-> [i |-> 1, emails |-> Stage2Emails(n),
                              calls |-> [i \in 1..n |-> 0],
                              items |-> <<>>, classifications |-> <<>>]]
    /\ RuleIdle /\ MarkerIdle /\ Stage1Idle /\ RunIdle

\* for i, email in enumerate(emails, 1): ...
Stage2Iteration ==
    /\ fn_out.pc = "loop"
    /\ fn_out.st.i <= Len(fn_in.emails)
    /\ fn_out' = [fn_out EXCEPT !.st = stage2_iteration(@, fn_in.answers[fn_out.st.i])]
    /\ UNCHANGED <<fn_in, ruleVars, markerVars, stage1Vars, runVars>>

\* return {"items": all_items, "classifications": all_classifications}
Stage2Return ==
    /\ fn_out.pc = "loop"
    /\ fn_out.st.i > Len(fn_in.emails)
    /\ fn_out' = [fn_out EXCEPT !.pc = "done"]
    /\ UNCHANGED <<fn_in, ruleVars, markerVars, stage1Vars, runVars>>

Stage2Next == Stage2Iteration \/ Stage2Return
SpecStage2 == Stage2Init /\ [][Stage2Next]_vars

Stage2Done == fn_out.pc = "done"
Stage2Positions == 1..Len(fn_in.emails)
IsSpamAnswer(ans) == ans.ok /\ ans.item.type /= "none" /\ ans.item.is_published_spam

\* C15: after stage2_analyze_content a message whose parsed output has
\* item.is_published_spam = true is annotated final_category
\* "Trash/Published", importance 1, needs_action false, whatever the
\* classification of the same output says.
C15_PublishedSpamOverridden ==
    Stage2Done =>
        \A p \in Stage2Positions :
            IsSpamAnswer(fn_in.answers[p]) =>
                /\ fn_out.st.emails[p].final_category = "Trash/Published"
                /\ fn_out.st.emails[p].importance = 1
                /\ fn_out.st.emails[p].needs_action = "False"

\* What holds of the code: the override is made for the messages whose
\* analysis returned.
SpamOverriddenWhenReturned ==
    Stage2Done =>
        \A p \in Stage2Positions :
            (IsSpamAnswer(fn_in.answers[p]) /\ Returned(fn_in.answers[p])) =>
                /\ fn_out.st.emails[p].final_category = "Trash/Published"
                /\ fn_out.st.emails[p].importance = 1
                /\ fn_out.st.emails[p].needs_action = "False"

HasItem(p) == Returned(fn_in.answers[p]) /\ fn_in.answers[p].item.type /= "none"
HasClassification(p) == Returned(fn_in.answers[p]) /\ fn_in.answers[p].has_cls
ItemsOf(p) == {k \in 1..Len(fn_out.st.items) : fn_out.st.items[k].source_emails = p}
ClassificationsOf(p) ==
    {k \in 1..Len(fn_out.st.classifications) : fn_out.st.classifications[k].id = p}

\* C16: stage2_analyze_content analyses every message of its input exactly
\* once; a message whose analysis failed contributes no item and no
\* classification; the item and the classification of every other message
\* carry that message's own 1-based position of the input list, whatever
\* failed before it.
C16_EachAnalysedOnceOwnPosition ==
    Stage2Done =>
        /\ \A p \in Stage2Positions : fn_out.st.calls[p] = 1
        /\ \A k \in 1..Len(fn_out.st.items) :
                fn_out.st.items[k].source_emails \in Stage2Positions
        /\ \A k \in 1..Len(fn_out.st.classifications) :
                fn_out.st.classifications[k].id \in Stage2Positions
        /\ \A p \in Stage2Positions :
            /\ Cardinality(ItemsOf(p)) = (IF HasItem(p) THEN 1 ELSE 0)
            /\ Cardinality(ClassificationsOf(p)) = (IF HasClassification(p) THEN 1 ELSE 0)
            /\ \A k \in ItemsOf(p) :
                    fn_out.st.items[k] = [fn_in.answers[p].item EXCEPT !.source_emails = p]
            /\ \A k \in ClassificationsOf(p) :
                    fn_out.st.classifications[k].category = fn_in.answers[p].category
        /\ fn_out.st.items = Stage2Items(fn_in.answers)

C16_Witness ==
    /\ Stage2Done
    /\ Len(fn_in.emails) = 3
    /\ ~fn_in.answers[1].ok
    /\ fn_in.answers[2].raises = "summary"
    /\ fn_in.answers[3] = Stage2Paper
    /\ Len(fn_out.st.items) = 1 /\ fn_out.st.items[1].source_emails = 3
    /\ Len(fn_out.st.classifications) = 1 /\ fn_out.st.classifications[1].id = 3


(***************************************************************************)
(* SpecGroup: group_emails_by_category on a list of up to MaxGroupEmails   *)
(* messages with any Stage-1 annotation: one of the eight labels, another  *)
(* word, or none.                                                          *)
(***************************************************************************)
MaxGroupEmails == 3

GroupAnnotations == Stage1Labels \cup {"SPAM", Absent}

GroupInit ==
    /\ \E n \in 0..MaxGroupEmails : \E cats \in [1..n -> GroupAnnotations] :
         fn_in = [i \in 1..n |->
                    [FetchedEmail(i, [k \in 1..n |-> "<m@x>"], [k \in 1..n |-> EditorFrom]) EXCEPT !.s1cat = cats[i]]]
    /\ fn_out = [pc |-> "call", groups |-> <<>>]
    /\ RuleIdle /\ MarkerIdle /\ Stage1Idle /\ RunIdle

\* groups = group_emails_by_category(new_emails)
Group ==
    /\ fn_out.pc = "call"
    /\ fn_out' = [pc |-> "done",
                  groups |-> [key \in GroupNames |-> group_emails_by_category(fn_in, key)]]
    /\ UNCHANGED <<fn_in, ruleVars, markerVars, stage1Vars, runVars>>

GroupNext == Group
SpecGroup == GroupInit /\ [][GroupNext]_vars

GroupsHolding(p) ==
    {key \in DOMAIN fn_out.groups :
        \E k \in 1..Len(fn_out.groups[key]) : fn_out.groups[key][k] = p}
TimesFiled(p) ==
    LET count(key) == Cardinality({k \in 1..Len(fn_out.groups[key]) : fn_out.groups[key][k] = p})
    IN  IF GroupsHolding(p) = {} THEN 0 ELSE count(CHOOSE key \in GroupsHolding(p) : TRUE)

\* C18: group_emails_by_category returns exactly the eight keys, and every
\* message of the input is in exactly one group: the one named by its
\* Stage-1 category when that is one of the eight labels, UNKNOWN when the
\* category is missing or is another word.
C18_GroupsPartitionTheInput ==
    fn_out.pc = "done" =>
        /\ DOMAIN fn_out.groups = Stage1Labels
        /\ \A key \in DOMAIN fn_out.groups :
              \A k \in 1..Len(fn_out.groups[key]) : fn_out.groups[key][k] \in 1..Len(fn_in)
        /\ \A p \in 1..Len(fn_in) :
              /\ Cardinality(GroupsHolding(p)) = 1
              /\ TimesFiled(p) = 1
              /\ GroupsHolding(p) = {IF fn_in[p].s1cat \in Stage1Labels
                                     THEN fn_in[p].s1cat ELSE "UNKNOWN"}

C18_Witness ==
    /\ fn_out.pc = "done"
    /\ Len(fn_in) = 3
    /\ fn_in[1].s1cat = "SPAM" /\ fn_in[2].s1cat = Absent /\ fn_in[3].s1cat = "PAPER"
    /\ fn_out.groups["UNKNOWN"] = <<1, 2>>
    /\ fn_out.groups["PAPER"] = <<3>>


(***************************************************************************)
(* SpecSync: the summary-sync decision for one message of the Stage-2      *)
(* section, taken by the loop of check_and_process and by                  *)
(* process_stage2_results followed by should_sync_to_emails_db.            *)
(***************************************************************************)
\* The category of the message's classification: none, null, or a word.
SyncClassCategories ==
    {Absent, None, "Trash/Published", "Trash", "TRASH", "Paper/InProgress", "PAPER",
     "Review/Active", "NOTICE"}
\* The final_category annotation _analyze_single_email left on the message.
SyncAnnotations == {Absent, "Unknown", "Trash/Published", "Paper/Journal"}
\* The items of the analysis: none, one of the message (with a category or
\* with null for it), one of another message.
SyncItems ==
    { <<>> }
      \cup { <<[NoItem EXCEPT !.type = "paper", !.category = c, !.source_emails = 1]>> :
                c \in {"Paper/Journal", "Review/Active", "Trash/Published", None} }
      \cup { <<[NoItem EXCEPT !.type = "paper", !.category = "Paper/Journal",
                              !.source_emails = 2]>> }
SyncNeedsAction == {Absent, "True", "False"}

SyncInit ==
    /\ \E c \in SyncClassCategories, a \in SyncAnnotations, items \in SyncItems,
          n \in SyncNeedsAction :
         fn_in = [ email |-> [FetchedEmail(1, <<"<m1@x>">>, <<EditorFrom>>) EXCEPT
                                !.s1cat = "PAPER", !.final_category = a, !.needs_action = n],
                   class_category |-> c, items |-> items ]
    /\ fn_out = [pc |-> "call", inline |-> <<FALSE, "">>, func |-> <<FALSE, "">>]
    /\ RuleIdle /\ MarkerIdle /\ Stage1Idle /\ RunIdle

\* The locals of check_and_process when its Stage-2 loop is at the message.
SyncLoop ==
    [IdleRun EXCEPT !.pc = "loop", !.k = 2, !.new_emails = <<fn_in.email>>,
                    !.members = <<1>>, !.pos = 1, !.stepi = 1,
                    !.items = fn_in.items, !.class_map = <<fn_in.class_category>>]

SyncDecide ==
    /\ fn_out.pc = "call"
    /\ fn_out' = [ pc     |-> "done",
                   inline |-> IF WantsSync(SyncLoop)
                              THEN <<TRUE, SyncArgs(SyncLoop).category>>
                              ELSE <<FALSE, "">>,
                   func   |-> should_sync_to_emails_db(
                                  process_stage2_results(fn_in.email, fn_in.class_category,
                                                         fn_in.items, 1)) ]
    /\ UNCHANGED <<fn_in, ruleVars, markerVars, stage1Vars, runVars>>

SyncNext == SyncDecide
SpecSync == SyncInit /\ [][SyncNext]_vars

\* The final category and the item category of the message, "" for none.
SyncFinal ==
    IF fn_in.class_category = None THEN ""
    ELSE IF fn_in.class_category /= Absent THEN fn_in.class_category
    ELSE IF fn_in.email.final_category /= Absent THEN fn_in.email.final_category
    ELSE "Unknown"
SyncItemCategory ==
    IF fn_in.items /= <<>> /\ fn_in.items[1].source_emails = 1 /\ fn_in.items[1].category /= None
    THEN fn_in.items[1].category ELSE ""
Holds(word, category) == category = word \/ <<word, category>> \in SubstringPairs

\* C19: no summary sync when the final category contains "Trash"; otherwise
\* sync exactly when the final category or the item category contains
\* "Paper" or "Review", or needs_action is true; the bucket is the review
\* bucket when one of them contains "Review", the academic bucket
\* otherwise; should_sync_to_emails_db and the decision written out in
\* check_and_process give the same answer.
C19_SyncDecision ==
    fn_out.pc = "done" =>
        LET paper  == Holds("Paper", SyncFinal) \/ Holds("Paper", SyncItemCategory)
            review == Holds("Review", SyncFinal) \/ Holds("Review", SyncItemCategory)
            wanted == ~Holds("Trash", SyncFinal)
                        /\ (paper \/ review \/ fn_in.email.needs_action = "True")
        IN  /\ fn_out.inline = fn_out.func
            /\ fn_out.func[1] = wanted
            /\ fn_out.func[2] = (IF ~wanted THEN ""
                                 ELSE IF review THEN "zh_shengao" ELSE "zh_xueshu")

C19_Witness ==
    /\ fn_out.pc = "done"
    /\ fn_in.class_category = "PAPER"
    /\ SyncItemCategory = "Trash/Published"
    /\ fn_in.email.needs_action = "True"
    /\ fn_out.inline = <<TRUE, "zh_xueshu">>
    /\ fn_out.func = <<TRUE, "zh_xueshu">>


(***************************************************************************)
(* SpecNotion: up to MaxNotionCalls calls of sync_paper and sync_review on *)
(* the remote stores, each with its own outcome of the lookup query and of *)
(* the write.                                                              *)
(***************************************************************************)
MaxNotionCalls == 2

\* Papers: one with manuscript id and title; the same title without id and
\* with another status; one without title; another title, type and venue
\* under the first one's manuscript id.
NotionPapers ==
    { PaperItem(1),
      [PaperItem(1) EXCEPT !.manuscript_id = <<>>, !.status = <<"Major Revision">>,
                           !.notes = <<"n">>, !.date = <<"2026-01-02">>],
      [PaperItem(1) EXCEPT !.title = <<>>],
      [PaperItem(2) EXCEPT !.manuscript_id = <<"TGRS-2024-1234">>] }
NotionReviews ==
    { ReviewItem,
      [ReviewItem EXCEPT !.status = <<"accepted with minor revision">>, !.notes = <<"n">>],
      [ReviewItem EXCEPT !.title = <<>>] }

\* The attempts of the lookup query and of the write: answered 200; answered
\* with an error status; (query) every attempt raised; (write) the first
\* attempt was carried out but its answer lost, the second answered.
NotionIo ==
    { [db_ok |-> FALSE, query |-> <<"ok">>, write |-> <<"ok">>] }
      \cup { [db_ok |-> TRUE, query |-> q, write |-> w] :
                q \in {r \in RequestRuns : r \in {<<"ok">>, <<"rejected">>, <<"fail", "fail", "fail">>}},
                w \in {r \in RequestRuns : r \in {<<"ok">>, <<"rejected">>, <<"lost", "ok">>}} }

NotionInit ==
    /\ RuleIdle /\ MarkerIdle /\ Stage1Idle /\ RunIdle
    /\ fn_in = [kind |-> "none", item |-> NoItem,
                io |-> [db_ok |-> TRUE, query |-> <<"ok">>, write |-> <<"ok">>]]
    /\ fn_out = [calls |-> 0, op |-> "none", ok |-> FALSE, before |-> <<>>]

NotionCall(kind, item, io, before, res) ==
    /\ fn_in' = [kind |-> kind, item |-> item, io |-> io]
    /\ fn_out' = [calls |-> fn_out.calls + 1, op |-> res.op, ok |-> res.ok, before |-> before]

SyncPaper ==
    /\ fn_out.calls < MaxNotionCalls
    /\ \E paper \in NotionPapers, io \in NotionIo :
         LET res == sync_paper(papers, paper, io)
         IN  /\ papers' = res.pages
             /\ NotionCall("paper", paper, io, papers, res)
    /\ UNCHANGED <<ruleVars, markerVars, stage1Vars, unread, msg_ids, msg_from, reviews, bills,
                   summaries, localVars, llmVars, run, run_no, crashes, trace>>

SyncReview ==
    /\ fn_out.calls < MaxNotionCalls
    /\ \E review \in NotionReviews, io \in NotionIo :
         LET res == sync_review(reviews, review, io)
         IN  /\ reviews' = res.pages
             /\ NotionCall("review", review, io, reviews, res)
    /\ UNCHANGED <<ruleVars, markerVars, stage1Vars, unread, msg_ids, msg_from, papers, bills,
                   summaries, localVars, llmVars, run, run_no, crashes, trace>>

NotionNext == SyncPaper \/ SyncReview
SpecNotion == NotionInit /\ [][NotionNext]_vars

\* The store the last call was made on, as it is now.
NotionStore == IF fn_in.kind = "paper" THEN papers ELSE reviews
\* The title the call looks up and writes.
NotionTitle ==
    Take(IF fn_in.kind = "review" /\ fn_in.item.title = <<>>
         THEN <<"zh_weizhi_lunwen">> ELSE fn_in.item.title, 100)
\* The index of the record of the store that has the item's key (for a
\* paper its manuscript id, else the first 50 characters of its title), 0
\* when the store had none before the call.
NotionExisting ==
    LET byId == IF fn_in.kind = "paper"
                THEN ExistingGet(fn_out.before, fn_in.item.manuscript_id) ELSE 0
    IN  IF byId /= 0 THEN byId ELSE ExistingGet(fn_out.before, Take(NotionTitle, 50))
\* The write changed no more than status, date and notes of one record.
NotionFrame ==
    /\ Len(NotionStore) = Len(fn_out.before)
    /\ \A k \in 1..Len(NotionStore) :
          /\ NotionStore[k].title = fn_out.before[k].title
          /\ NotionStore[k].manuscript_id = fn_out.before[k].manuscript_id
          /\ NotionStore[k].type = fn_out.before[k].type
          /\ NotionStore[k].venue = fn_out.before[k].venue
          /\ k /= NotionExisting => NotionStore[k] = fn_out.before[k]

\* C20: sync_paper and sync_review issue an update (PATCH) exactly when a
\* record with the item's key exists in the store, a create (POST)
\* otherwise; the update writes only status, date or deadline, and notes:
\* title, manuscript id, type and venue of the record stay as they were.
\* (Stated of the calls that issue a write.)
C20_PatchIffRecordExists ==
    (fn_out.calls > 0 /\ fn_out.op /= "none") =>
        /\ fn_out.op = (IF NotionExisting /= 0 THEN "PATCH" ELSE "POST")
        /\ fn_out.op = "PATCH" => NotionFrame

\* What holds of the code: the same for the calls that got as far as the
\* lookup and whose lookup query was answered.
NotionLookedUp ==
    /\ fn_in.io.db_ok /\ ReqOk(fn_in.io.query)
    /\ ~(fn_in.kind = "paper" /\ fn_in.item.title = <<>>)
PatchIffRecordSeen ==
    fn_out.calls > 0 =>
        /\ NotionLookedUp => fn_out.op = (IF NotionExisting /= 0 THEN "PATCH" ELSE "POST")
        /\ fn_out.op = "PATCH" => NotionFrame

\* The store the last call was made on is as it was before the call.
NotionUntouched == NotionStore = fn_out.before

\* C21: an item with an empty (or missing) title is hard-skipped: sync_paper
\* and sync_review issue neither a create nor an update for it and report
\* failure, so no record without a real title is created.
C21_EmptyTitleSkipped ==
    (fn_out.calls > 0 /\ fn_in.item.title = <<>>) =>
        /\ fn_out.op = "none"
        /\ ~fn_out.ok
        /\ NotionUntouched

\* What holds of the code: sync_paper skips a paper without title;
\* sync_review files a review without title under the stand-in title.
PaperWithoutTitleSkipped ==
    (fn_out.calls > 0 /\ fn_in.kind = "paper" /\ fn_in.item.title = <<>>) =>
        /\ fn_out.op = "none"
        /\ ~fn_out.ok
        /\ NotionUntouched

(***************************************************************************)
(* normalize_paper_status and normalize_review_status on status texts      *)
(***************************************************************************)
MaxStatusFrags == 2

\* The fragments a status text is made of: keys of the two maps in the
\* spelling the LLM is asked for, in another case, inside a longer phrase,
\* canonical labels, and a word no key occurs in.
StatusFrags ==
    { "Major Revision", "major revision", "Under Review", "with editor",
      "accepted with minor revision", "accepted", "rejected", "submitted",
      "Invited", "pending", "completed", "in progress", "reviewing",
      "zh_daxiu", "zh_shengaozhong", "zh_yitijiao", "word", "unknown" }
StatusTexts == SeqsUpTo(StatusFrags, MaxStatusFrags)

StatusInit ==
    /\ RuleIdle /\ MarkerIdle /\ Stage1Idle /\ RunIdle
    /\ fn_in \in StatusTexts
    /\ fn_out = <<>>

Normalize ==
    /\ fn_out = <<>>
    /\ fn_out' = <<normalize_paper_status(fn_in), normalize_review_status(fn_in)>>
    /\ UNCHANGED <<ruleVars, markerVars, stage1Vars, runVars, fn_in>>

StatusNext == Normalize
SpecStatus == StatusInit /\ [][StatusNext]_vars

PaperLabels ==
    { "zh_yitougao", "zh_shengaozhong", "zh_xiaoxiu", "zh_daxiu",
      "zh_yijieshou_paper", "zh_beijugao" }
ReviewLabels ==
    { "zh_daijieshou", "zh_yijieshou_review", "zh_shengaozhong", "zh_yitijiao" }

\* The values of the keys of a map that occur in the lower-cased text.
MatchedValues(map, text) ==
    { map[k][2] : k \in {j \in 1..Len(map) : Contains(map[j][1], Lower(text))} }

\* C22: both normalisations are total maps into their closed label sets (six
\* paper labels, four review labels); a text in which no key occurs, and the
\* empty text, give the fixed default (under review for papers, awaiting
\* acceptance for reviews), never an unknown label; a text in which keys
\* occur gives the label of one of them; "Major Revision" gives major
\* revision.
C22_StatusIntoClosedLabelSet ==
    fn_out /= <<>> =>
        /\ fn_out[1] \in PaperLabels
        /\ fn_out[2] \in ReviewLabels
        /\ MatchedValues(PAPER_STATUS_MAP, fn_in) = {} => fn_out[1] = "zh_shengaozhong"
        /\ MatchedValues(REVIEW_STATUS_MAP, fn_in) = {} => fn_out[2] = "zh_daijieshou"
        /\ MatchedValues(PAPER_STATUS_MAP, fn_in) /= {}
              => fn_out[1] \in MatchedValues(PAPER_STATUS_MAP, fn_in)
        /\ MatchedValues(REVIEW_STATUS_MAP, fn_in) /= {}
              => fn_out[2] \in MatchedValues(REVIEW_STATUS_MAP, fn_in)
        /\ fn_in = <<"Major Revision">> => fn_out[1] = "zh_daxiu"

\* Free text no key of either map occurs in has been normalised to the two
\* defaults.
C22_Witness ==
    /\ fn_in = <<"word", "unknown">>
    /\ fn_out = <<"zh_shengaozhong", "zh_daijieshou">>

(***************************************************************************)
(* BillingDB.add_or_update_record, called on the billing_records table     *)
(***************************************************************************)
MaxRecordCalls == 2

RecordPeriods  == {"2026-01", "2026-02"}
RecordAmounts  == {NoneInt, 100, 150}
RecordDueDates == {None, "2026-02-10"}
RecordStatuses == {"pending", "paid", ""}
RecordSources  == {None, "<m1@x>"}
RecordNotes    == {None, "n"}

RecordInit ==
    /\ RuleIdle /\ MarkerIdle /\ Stage1Idle /\ RunIdle
    /\ fn_in = <<>>
    /\ fn_out = [calls |-> 0, is_new |-> FALSE, has_changes |-> FALSE, before |-> {}]

AddOrUpdateRecord ==
    /\ fn_out.calls < MaxRecordCalls
    /\ \E period \in RecordPeriods, amount \in RecordAmounts, due_date \in RecordDueDates,
          status \in RecordStatuses, source \in RecordSources, notes \in RecordNotes :
         LET res == add_or_update_record(local_records, "zh_cmb_card", period, amount,
                                         due_date, status, source, notes)
         IN  /\ local_records' = res.records
             /\ fn_in' = [period |-> period, amount |-> amount, due_date |-> due_date,
                          status |-> status, email_message_id |-> source, notes |-> notes]
             /\ fn_out' = [calls |-> fn_out.calls + 1, is_new |-> res.is_new,
                           has_changes |-> res.has_changes, before |-> local_records]
    /\ UNCHANGED <<ruleVars, markerVars, stage1Vars, unread, msg_ids, msg_from, storeVars, local_items,
                   llmVars, run, run_no, crashes, trace>>

RecordNext == AddOrUpdateRecord
SpecRecord == RecordInit /\ [][RecordNext]_vars

\* The rows of a table under the key of the last call.
RecordsOfKey(table) == {rec \in table : rec.period = fn_in.period}
\* The last call supplied a value that differs from the stored one.
SuppliedDiffers(old) ==
    \/ fn_in.amount /= NoneInt /\ fn_in.amount /= old.amount
    \/ fn_in.due_date /= None /\ fn_in.due_date /= old.due_date
    \/ fn_in.status /= "" /\ fn_in.status /= old.status

\* C23: on an existing (item, period) record add_or_update_record reports
\* has_changes exactly when the supplied amount, due date or status differs
\* from the stored value, and only then writes: otherwise the table is left
\* as it was, also when notes or source message id differ; with a different
\* amount the stored amount becomes the new one.  For a key without record
\* it creates one and reports is_new.  No call touches a record of another
\* key, and a key never has two records.
C23_ChangeDetection ==
    fn_out.calls > 0 =>
        /\ Cardinality(RecordsOfKey(local_records)) = 1
        /\ local_records \ RecordsOfKey(local_records)
              = fn_out.before \ RecordsOfKey(fn_out.before)
        /\ fn_out.is_new = (RecordsOfKey(fn_out.before) = {})
        /\ fn_out.is_new =>
              \A rec \in RecordsOfKey(local_records) :
                  /\ rec.amount = fn_in.amount /\ rec.status = fn_in.status
                  /\ rec.due_date = fn_in.due_date
        /\ \A old \in RecordsOfKey(fn_out.before) :
              /\ fn_out.has_changes = SuppliedDiffers(old)
              /\ ~fn_out.has_changes => local_records = fn_out.before
              /\ (fn_in.amount /= NoneInt /\ fn_in.amount /= old.amount) =>
                    \A rec \in RecordsOfKey(local_records) : rec.amount = fn_in.amount

\* A record with amount 100 exists; a call with amount 100, the same status
\* and other notes and source reported no change and wrote nothing.
C23_Witness ==
    /\ fn_out.calls = 2
    /\ ~fn_out.is_new /\ ~fn_out.has_changes
    /\ fn_in.amount = 100 /\ fn_in.status = "pending"
    /\ \E old \in RecordsOfKey(fn_out.before) :
          /\ old.amount = 100 /\ old.status = "pending"
          /\ old.notes /= fn_in.notes /\ fn_in.notes /= None
          /\ old.email_message_id /= fn_in.email_message_id
    /\ local_records = fn_out.before

(***************************************************************************)
(* AcademicProcessor.process and BillingProcessor.process on a list of     *)
(* items.  An input is <<item, nulls>>: the item and the keys the LLM's    *)
(* JSON gave as null.                                                      *)
(***************************************************************************)
MaxProcessItems == 2

AcademicInputs ==
    { <<it, nulls>> : it \in {PaperItem(1), PaperItem(2), ReviewItem, SpamItem(1)},
                      nulls \in {{}, {"venue"}} }
BillingInputs ==
    { <<CardBill, {}>>, <<[CardBill EXCEPT !.period = ""], {}>>,
      <<[CardBill EXCEPT !.name = ""], {}>>, <<CardBill, {"name"}>> }

\* One iteration of the loop of AcademicProcessor.process: the stores after
\* it, whether an upsert was issued, and whether the iteration raised
\* (item.get('venue', '?')[:20] of the success message, on a null venue).
academic_iteration(pp, rr, inp, io) ==
    LET item   == inp[1]
        target == AcademicTarget(item)
        res    == IF target = "papers" THEN sync_paper(pp, item, io)
                  ELSE sync_review(rr, item, io)
    IN  IF target = ""
        THEN [papers |-> pp, reviews |-> rr, upsert |-> FALSE, raised |-> FALSE]
        ELSE [papers  |-> IF target = "papers" THEN res.pages ELSE pp,
              reviews |-> IF target = "papers" THEN rr ELSE res.pages,
              upsert  |-> TRUE,
              raised  |-> res.ok /\ "venue" \in inp[2]]

\* One iteration of the loop of BillingProcessor.process: name =
\* item.get("name", "").strip() raises on a null name; an item without name
\* is passed over; the remote upsert is wrapped in try/except.
billing_iteration(items, records, pages, inp, io) ==
    LET item    == inp[1]
        res     == sync_to_notion(pages, item, item.period, io)
        found   == find_existing_record(pages, item.name, item.period, io.query)
        page_id == IF found /= 0 THEN found ELSE Len(res.pages)
        created == get_or_create_item(items, item.name, item.type)
    IN  IF "name" \in inp[2]
        THEN [items |-> items, records |-> records, pages |-> pages,
              upsert |-> FALSE, raised |-> TRUE]
        ELSE IF item.name = ""
        THEN [items |-> items, records |-> records, pages |-> pages,
              upsert |-> FALSE, raised |-> FALSE]
        ELSE [items   |-> IF res.ok THEN update_item_notion_id(created, item.name, page_id)
                          ELSE created,
              records |-> IF item.period /= ""
                          THEN add_or_update_record(records, item.name, item.period,
                                                    item.amount, None, item.status,
                                                    None, None).records
                          ELSE records,
              pages   |-> res.pages,
              upsert  |-> TRUE, raised |-> FALSE]

ProcessInit ==
    /\ RuleIdle /\ MarkerIdle /\ Stage1Idle /\ RunIdle
    /\ \E kind \in {"academic", "billing"} :
         fn_in \in { [kind |-> kind, items |-> l] :
                        l \in SeqsUpTo(IF kind = "academic" THEN AcademicInputs
                                       ELSE BillingInputs, MaxProcessItems) \ {<<>>} }
    /\ fn_out = [i |-> 1, upserts |-> {}, failed |-> {}, ended |-> "no"]

\* How an iteration moves the loop on: to the next item, or out of the
\* function by the exception.
ProcessStep(it, io) ==
    fn_out' = [ i       |-> fn_out.i + 1,
                upserts |-> IF it.upsert THEN fn_out.upserts \cup {fn_out.i}
                            ELSE fn_out.upserts,
                failed  |-> IF it.upsert /\ ~(ReqOk(io.query) /\ ReqOk(io.write))
                            THEN fn_out.failed \cup {fn_out.i} ELSE fn_out.failed,
                ended   |-> IF it.raised THEN "raised" ELSE "no" ]

AcademicIteration ==
    /\ fn_in.kind = "academic" /\ fn_out.ended = "no" /\ fn_out.i <= Len(fn_in.items)
    /\ \E io \in UpsertIo :
         LET it == academic_iteration(papers, reviews, fn_in.items[fn_out.i], io)
         IN  /\ papers' = it.papers
             /\ reviews' = it.reviews
             /\ ProcessStep(it, io)
    /\ UNCHANGED <<ruleVars, markerVars, stage1Vars, unread, msg_ids, msg_from, bills, summaries,
                   localVars, llmVars, run, run_no, crashes, trace, fn_in>>

BillingIteration ==
    /\ fn_in.kind = "billing" /\ fn_out.ended = "no" /\ fn_out.i <= Len(fn_in.items)
    /\ \E io \in UpsertIo :
         LET it == billing_iteration(local_items, local_records, bills,
                                     fn_in.items[fn_out.i], io)
         IN  /\ local_items' = it.items
             /\ local_records' = it.records
             /\ bills' = it.pages
             /\ ProcessStep(it, io)
    /\ UNCHANGED <<ruleVars, markerVars, stage1Vars, unread, msg_ids, msg_from, papers, reviews,
                   summaries, llmVars, run, run_no, crashes, trace, fn_in>>

\* The return statement after the loop.
ProcessReturn ==
    /\ fn_out.ended = "no" /\ fn_out.i > Len(fn_in.items)
    /\ fn_out' = [fn_out EXCEPT !.ended = "returned"]
    /\ UNCHANGED <<ruleVars, markerVars, stage1Vars, runVars, fn_in>>

ProcessNext == AcademicIteration \/ BillingIteration \/ ProcessReturn
SpecProcess == ProcessInit /\ [][ProcessNext]_vars

\* The positions of the items the processor upserts: academic items of a
\* synced category, billing items with a name (a null name is none).
Upsertable ==
    { k \in 1..Len(fn_in.items) :
        IF fn_in.kind = "academic" THEN AcademicTarget(fn_in.items[k][1]) /= ""
        ELSE fn_in.items[k][1].name /= "" /\ "name" \notin fn_in.items[k][2] }
Malformed == { k \in 1..Len(fn_in.items) : fn_in.items[k][2] /= {} }

\* C24: a failure while upserting one item (a failed remote call, or
\* malformed item data such as a null field) is contained to that item: the
\* call never ends by an exception, and when it has ended every other item
\* of the batch that is to be upserted has been upserted.
C24_ItemFailureContained ==
    /\ fn_out.ended /= "raised"
    /\ fn_out.ended = "returned" => fn_out.upserts = Upsertable

\* What holds of the code: a failed remote call is contained.  With no null
\* field in the batch the call returns, all items upserted, whatever the
\* remote calls came to.
RemoteFailureContained ==
    Malformed = {} =>
        /\ fn_out.ended /= "raised"
        /\ fn_out.ended = "returned" => fn_out.upserts = Upsertable

(***************************************************************************)
(* scheduler/watcher.py: EmailWatcher.run_forever.  fn_in is the           *)
(* configuration (IMESSAGE_ENABLED), fn_out the loop: pc is "try" at the   *)
(* top of the loop body, "except" in the handler of the inner try, "sleep" *)
(* at time.sleep, "stopped" after the outer handler; n and caught count    *)
(* the iterations started and the exceptions caught, both up to            *)
(* MaxIterations.                                                          *)
(***************************************************************************)
MaxIterations == 3

UpTo(n) == IF n < MaxIterations THEN n + 1 ELSE MaxIterations

\* What one pass through the inner try comes to: both calls returned, the
\* daily report raised, check_and_process raised.
IterationOutcomes == {"returned", "report_raised", "check_raised"}

\* The except clause of the inner try, entered with notify = IMESSAGE_ENABLED
\* and not _is_quiet_hours(): logs, sends the alert with send_silent and
\* falls through to the sleep.
handle_exception_propagate(loop, notify) ==
    [loop EXCEPT !.pc = "stopped", !.cause = loop.outcome]
handle_exception(loop, notify) ==
    [loop EXCEPT !.pc = "sleep", !.caught = UpTo(loop.caught),
                 !.alerts = IF notify THEN UpTo(loop.alerts) ELSE loop.alerts]

LoopInit ==
    /\ RuleIdle /\ MarkerIdle /\ Stage1Idle /\ RunIdle
    /\ fn_in \in [imessage_enabled : BOOLEAN]
    /\ fn_out = [pc |-> "try", n |-> 0, caught |-> 0, alerts |-> 0,
                 outcome |-> "none", cause |-> "none"]

\* The body of the inner try: _should_send_daily_report, _send_daily_report,
\* check_and_process.
Iteration ==
    /\ fn_out.pc = "try"
    /\ \E outcome \in IterationOutcomes :
         fn_out' = [fn_out EXCEPT !.pc = IF outcome = "returned" THEN "sleep" ELSE "except",
                                  !.n = UpTo(fn_out.n), !.outcome = outcome]
    /\ UNCHANGED <<ruleVars, markerVars, stage1Vars, runVars, fn_in>>

HandleException ==
    /\ fn_out.pc = "except"
    /\ \E quiet \in BOOLEAN :
         fn_out' = handle_exception(fn_out, fn_in.imessage_enabled /\ ~quiet)
    /\ UNCHANGED <<ruleVars, markerVars, stage1Vars, runVars, fn_in>>

\* time.sleep(interval) returns and the while loop starts over.
Sleep ==
    /\ fn_out.pc = "sleep"
    /\ fn_out' = [fn_out EXCEPT !.pc = "try"]
    /\ UNCHANGED <<ruleVars, markerVars, stage1Vars, runVars, fn_in>>

\* Ctrl+C, anywhere in the loop: caught by the outer try.
KeyboardInterrupt ==
    /\ fn_out.pc \in {"try", "except", "sleep"}
    /\ fn_out' = [fn_out EXCEPT !.pc = "stopped", !.cause = "KeyboardInterrupt"]
    /\ UNCHANGED <<ruleVars, markerVars, stage1Vars, runVars, fn_in>>

LoopNext == Iteration \/ HandleException \/ Sleep \/ KeyboardInterrupt
SpecLoop == LoopInit /\ [][LoopNext]_vars
\* Every iteration terminates, the handler and the sleep return.
SpecLoopFair ==
    SpecLoop /\ WF_vars(Iteration) /\ WF_vars(HandleException) /\ WF_vars(Sleep)

\* C25: an exception raised by a poll iteration never ends the loop: it is
\* caught and after the sleep the next iteration starts; only a keyboard
\* interrupt stops the loop.  Hence, if every iteration terminates, a next
\* iteration always eventually starts as long as nobody interrupts.
C25_LoopSurvivesExceptions ==
    /\ [](fn_out.pc = "stopped" => fn_out.cause = "KeyboardInterrupt")
    /\ [](fn_out.pc = "except" => <>(fn_out.pc \in {"try", "stopped"}))
    /\ ([](fn_out.pc /= "stopped") => []<>(fn_out.pc = "try"))

\* An iteration is about to start after exceptions of both kinds were
\* caught, one of them with an alert.
C25_Witness ==
    /\ fn_out.pc = "try"
    /\ fn_out.caught >= 2 /\ fn_out.alerts = 1
    /\ fn_out.outcome = "check_raised"

(***************************************************************************)
(* NotionClient._request, attempt by attempt, as the write request of a    *)
(* sync operation.  fn_in is the operation; fn_out.log the outcomes of the *)
(* attempts made so far, fn_out.result what _request returned: "page" (the *)
(* parsed body of a 200 answer, with an id), "error_object" (the parsed    *)
(* body of an error status, without id), "error_dict" ({"error": str(e)}). *)
(***************************************************************************)
MaxAttempts == 3

SyncOperations == {"sync_paper", "sync_review", "sync_email", "sync_to_notion"}

\* One pass of "for attempt in range(3)" with the outcome of the HTTP call
\* and of response.json().
request_attempt_raise(req, outcome) ==
    [req EXCEPT !.log = Append(req.log, outcome),
                !.result = CASE outcome = "ok" -> "page"
                             [] outcome = "rejected" -> "error_object"
                             [] OTHER -> IF Len(req.log) + 1 < MaxAttempts THEN "none"
                                         ELSE "raised"]
request_attempt(req, outcome) ==
    [req EXCEPT !.log = Append(req.log, outcome),
                !.result = CASE outcome = "ok" -> "page"
                             [] outcome = "rejected" -> "error_object"
                             [] OTHER -> IF Len(req.log) + 1 < MaxAttempts THEN "none"
                                         ELSE "error_dict"]

RequestInit ==
    /\ RuleIdle /\ MarkerIdle /\ Stage1Idle /\ RunIdle
    /\ fn_in \in SyncOperations
    /\ fn_out = [log |-> <<>>, result |-> "none", reported |-> "none"]

Attempt ==
    /\ fn_out.result = "none"
    /\ \E outcome \in Answers \cup Raises : fn_out' = request_attempt(fn_out, outcome)
    /\ UNCHANGED <<ruleVars, markerVars, stage1Vars, runVars, fn_in>>

\* The operation returns on the result of its write request.
SyncReturn ==
    /\ fn_out.result /= "none" /\ fn_out.reported = "none"
    /\ LET io  == [db_ok |-> TRUE, query |-> <<"ok">>, write |-> fn_out.log]
           res == CASE fn_in = "sync_paper"  -> sync_paper(papers, PaperItem(1), io)
                    [] fn_in = "sync_review" -> sync_review(reviews, ReviewItem, io)
                    [] fn_in = "sync_email"  ->
                          sync_email(summaries, FetchedEmail(1, <<"<m1@x>">>, <<EditorFrom>>), "zh_xueshu",
                                     4, "True", io)
                    [] OTHER -> sync_to_notion(bills, CardBill, CardBill.period, io)
       IN  /\ papers'    = IF fn_in = "sync_paper" THEN res.pages ELSE papers
           /\ reviews'   = IF fn_in = "sync_review" THEN res.pages ELSE reviews
           /\ summaries' = IF fn_in = "sync_email" THEN res.pages ELSE summaries
           /\ bills'     = IF fn_in = "sync_to_notion" THEN res.pages ELSE bills
           /\ fn_out' = [fn_out EXCEPT !.reported = IF res.ok THEN "True" ELSE "False"]
    /\ UNCHANGED <<ruleVars, markerVars, stage1Vars, unread, msg_ids, msg_from, localVars, llmVars,
                   run, run_no, crashes, trace, fn_in>>

RequestNext == Attempt \/ SyncReturn
SpecRequest == RequestInit /\ [][RequestNext]_vars

RequestDone == fn_out.result /= "none"
LastAttempt == fn_out.log[Len(fn_out.log)]

UnreadWithoutId == {m \in unread : msg_ids[m] = ""}

\* C27: a message with an empty message id is never deduplicated: no marker
\* row is ever written for it, is_processed reports False for it, and it is
\* in the new set of every run in which the mailbox reports it unread.
C27_EmptyIdNeverDeduplicated ==
    /\ \A row \in markers : row.message_id /= ""
    /\ ~is_processed(markers, "")
    /\ trace.op = "start" =>
          \A m \in UnreadWithoutId : m \in trace.msgs /\ m \notin trace.excluded

\* The second run starts with a message without id in its new set, for which
\* the first run made a summary page, while the message of the first run
\* that has an id is excluded.
C27_Witness ==
    /\ run_no = 2 /\ trace.op = "start"
    /\ \E m \in UnreadWithoutId : m \in trace.msgs /\ SummaryRows(m) /= {}
    /\ trace.excluded /= {}

\* The step ends the run by the return of check_and_process.
RunReturns == run.pc /= "idle" /\ run'.pc = "idle" /\ trace'.op /= "crash"

\* C28: in a run that finishes, every message of the new set gets
\* mark_processed called exactly once, whatever its Stage-1 category and
\* whether its remote syncs succeeded; for a message with a non-empty id the
\* call leaves exactly one marker row of that id.
C28_EveryNewMessageMarkedOnce ==
    /\ [][trace'.op = "mark" =>
            /\ trace'.msgs \cap trace.marked = {}
            /\ \A m \in trace'.msgs :
                  msg_ids[m] /= "" =>
                      Cardinality({row \in markers' : row.message_id = msg_ids[m]}) = 1]_vars
    /\ [][RunReturns => trace'.marked = NewIds]_vars

\* A run has returned after marking two messages of different Stage-1
\* categories, one of them after its summary sync failed.
C28_Witness ==
    /\ run.pc = "idle" /\ trace.op = "read"
    /\ Cardinality(trace.marked) = 2
    /\ trace.sync_failed \cap trace.marked /= {}
    /\ \A m \in trace.marked : MarkerRows(m) /= {}
    /\ \E a \in markers, b \in markers : a.stage1_result /= b.stage1_result

(***************************************************************************)
(* SpecRouted: check_and_process on mailboxes whose senders the rule       *)
(* engine resolves, or leaves to the LLM                                   *)
(***************************************************************************)
\* A sender on the deny list only, one on the allow list as an exam body, one
\* on the allow list as a bank, and one that no rule matches.
DenyFrom == <<"aliyun", "@", "notice.aliyun.com">>
ExamFrom == <<"ielts", "@", "britishcouncil", ".org">>
BankFrom == <<"cmbchina", "@", "message.cmbchina.com">>
RoutedFroms == {DenyFrom, ExamFrom, BankFrom, EditorFrom}

\* Message-ID headers, one for each message of the mailbox.
DistinctIds == <<"<m1@x>", "<m2@x>", "<m3@x>", "<m4@x>">>

\* Every message has its own Message-ID; the LLM gives every message it is
\* asked about the same Stage-1 category.
RoutedInit ==
    /\ RuleIdle /\ MarkerIdle /\ Stage1Idle /\ PureIdle
    /\ unread = 1..NMsg
    /\ msg_ids = [i \in 1..NMsg |-> DistinctIds[i]]
    /\ msg_from \in [1..NMsg -> RoutedFroms]
    /\ papers = <<>> /\ reviews = <<>> /\ bills = <<>> /\ summaries = <<>>
    /\ local_items = {} /\ local_records = {}
    /\ llm_s1 \in {f \in S1Assignments : f[1] \in {"PAPER", "EXAM"} /\ \A i \in 1..NMsg : f[i] = f[1]}
    /\ llm_s2 = [i \in 1..NMsg |-> S2Unasked]
    /\ llm_bill = [asked |-> FALSE, items |-> <<>>]
    /\ run = IdleRun /\ run_no = 0 /\ crashes = 0
    /\ trace = NoTrace

SpecRouted == RoutedInit /\ [][Next]_vars

\* The category the rule engine gives message m, None when it gives none.
RuleCategoryOf(m) == check_sender_priority(FetchedEmail(m, msg_ids, msg_from))[1]

\* The sender of message m is on the deny list and not on the allow list.
DenyListed(m) ==
    /\ AnyTrashSender(1, Lower(msg_from[m]))
    /\ FirstHighPriority(1, Lower(msg_from[m])) = 0

\* C29: a message whose sender is on the deny list and not on the allow list
\* is in the prompt of no Stage-1 LLM call, is not analysed by Stage 2, has
\* no remote write made or tried for it, carries Stage-1 category TRASH and
\* importance 1, and once marked has a marker with stage1_result TRASH,
\* synced_to_notion 0 and marked_read 1; and a run whose new messages are all
\* resolved by the rule engine makes no Stage-1 LLM call.
C29_DenylistedIsTrashWithoutLlm ==
    /\ \A m \in 1..NMsg :
          DenyListed(m) =>
            /\ \A k \in 1..Len(trace.s1_prompts) : m \notin trace.s1_prompts[k]
            /\ m \notin trace.analysed
            /\ m \notin trace.upserted \cup trace.summarised \cup trace.sync_failed
            /\ SummaryRows(m) = {}
            /\ \A p \in 1..Len(run.new_emails) :
                  run.new_emails[p].email_id = m =>
                      /\ run.new_emails[p].s1cat = "TRASH"
                      /\ run.new_emails[p].importance = 1
            /\ m \in trace.marked => MarkerRows(m) /= {}
            /\ \A row \in MarkerRows(m) :
                  /\ row.stage1_result = "TRASH"
                  /\ row.synced_to_notion = 0
                  /\ row.marked_read = 1
    /\ (trace.op = "start" /\ \A m \in trace.msgs : RuleCategoryOf(m) /= None)
          => trace.s1_prompts = <<>>

\* A run has returned after marking a deny-listed message and a message the
\* LLM classified: the one Stage-1 call had only the second in its prompt.
C29_Witness ==
    /\ run.pc = "idle" /\ trace.op = "read"
    /\ DenyListed(1) /\ RuleCategoryOf(2) = None
    /\ trace.marked = {1, 2}
    /\ trace.s1_prompts = <<{2}>>
    /\ \E row \in MarkerRows(1) : row.stage1_result = "TRASH" /\ row.synced_to_notion = 0

\* A run whose two new messages are both deny-listed has returned.
AllDenyListedRun ==
    /\ run.pc = "idle" /\ trace.op = "read"
    /\ DenyListed(1) /\ DenyListed(2)
    /\ trace.marked = {1, 2} /\ trace.s1_prompts = <<>>

\* C30 as stated: no message the rule engine resolves as TRASH, EXAM or
\* BILLING is analysed by Stage 2.
C30_RuleResolvedSkipStage2 ==
    \A m \in 1..NMsg :
        RuleCategoryOf(m) \in {"TRASH", "EXAM", "BILLING"} => m \notin trace.analysed

\* C30 as the code has it: a message the rule engine resolves as TRASH or
\* BILLING is not analysed by Stage 2; the category of a message the rule
\* engine resolves as TRASH, EXAM or BILLING stays the rule engine's, in the
\* run, in its marker (which has no Stage-2 category) and in its summary page.
C30_RuleCategoryFinal ==
    \A m \in 1..NMsg :
        LET c == RuleCategoryOf(m)
        IN  c \in {"TRASH", "EXAM", "BILLING"} =>
              /\ c \in {"TRASH", "BILLING"} => m \notin trace.analysed
              /\ \A p \in 1..Len(run.new_emails) :
                    run.new_emails[p].email_id = m => run.new_emails[p].s1cat = c
              /\ \A row \in MarkerRows(m) :
                    row.stage1_result = c /\ row.stage2_category = None
              /\ \A j \in SummaryRows(m) :
                    summaries[j].category = (IF c = "EXAM" THEN "zh_kaoshi" ELSE "zh_zhangdan")

\* A run has returned after Stage 2 analysed a message of an exam body on the
\* allow list and gave it another category: the message is marked EXAM and
\* summarised as an exam message.
C30_Witness ==
    /\ run.pc = "idle" /\ trace.op = "read"
    /\ \E m \in trace.analysed \cap trace.marked \cap trace.summarised :
          /\ RuleCategoryOf(m) = "EXAM"
          /\ \E row \in MarkerRows(m) : row.stage1_result = "EXAM"
          /\ \E j \in SummaryRows(m) : summaries[j].category = "zh_kaoshi"

(***************************************************************************)
(* SpecSection: one message through the Stage-2 section (Stage-1 category  *)
(* PAPER) or the exam section (EXAM) of check_and_process: the analysis,   *)
(* then the loop body's sync decision and mark_processed arguments         *)
(***************************************************************************)
\* The message as Stage 1 left it: PAPER from the LLM, EXAM from the rule
\* engine (importance 5) or EXAM from the LLM (no importance).
SectionStage1 == { <<"PAPER", NoneInt>>, <<"EXAM", 5>>, <<"EXAM", NoneInt>> }

\* The "item" of the answer: none, a paper, and a published-paper
\* advertisement whose item category is the trash label or a paper label.
SectionItems ==
    { NoItem,
      [NoItem EXCEPT !.type = "paper", !.category = "Paper/Journal"],
      [NoItem EXCEPT !.type = "paper", !.category = "Trash/Published",
                     !.is_published_spam = TRUE],
      [NoItem EXCEPT !.type = "paper", !.category = "Paper/Journal",
                     !.is_published_spam = TRUE] }

\* The "classification" of the answer: its category (the upper-case labels
\* of the prompt, the labels of the item, or none), importance and
\* needs_action, each present or left out.
SectionCategories == {Absent, "TRASH", "Trash/Published", "PAPER", "Paper/Journal", "EXAM"}
SectionImportances == {NoneInt, 1, 4}

SectionAnswers ==
    { S2Answer(FALSE, NoItem, FALSE, Absent, NoneInt, Absent) }
      \cup { S2Answer(TRUE, it, FALSE, Absent, NoneInt, Absent) : it \in SectionItems }
      \cup { S2Answer(TRUE, it, TRUE, c, imp, na) :
                it \in SectionItems, c \in SectionCategories,
                imp \in SectionImportances, na \in {Absent, "True", "False"} }

SectionInit ==
    /\ \E s1 \in SectionStage1, ans \in SectionAnswers :
         fn_in = [ email |-> [FetchedEmail(1, <<"<m1@x>">>, <<EditorFrom>>) EXCEPT
                                !.s1cat = s1[1], !.importance = s1[2]],
                   ans |-> ans ]
    /\ fn_out = [ pc |-> "call", email |-> fn_in.email, items |-> <<>>,
                  class_map |-> <<Absent>>, sync |-> FALSE,
                  args |-> [category |-> "", importance |-> NoneInt, needs_action |-> FALSE],
                  synced |-> FALSE, stage2_category |-> None, func |-> <<FALSE, "">> ]
    /\ RuleIdle /\ MarkerIdle /\ Stage1Idle /\ RunIdle

\* stage2_analyze_content on the one message of the section.
SectionAnalyze ==
    /\ fn_out.pc = "call"
    /\ fn_out' = [fn_out EXCEPT
                    !.pc = "analysed",
                    !.email = analyze_single_email(fn_in.email, fn_in.ans),
                    !.items = Stage2Items(<<fn_in.ans>>),
                    !.class_map = Stage2ClassMap(<<fn_in.ans>>)]
    /\ UNCHANGED <<fn_in, ruleVars, markerVars, stage1Vars, runVars>>

\* The locals of check_and_process when the loop of the section is at the
\* message.
SectionRun ==
    [IdleRun EXCEPT !.pc = "loop", !.k = IF fn_in.email.s1cat = "EXAM" THEN 5 ELSE 2,
                    !.new_emails = <<fn_out.email>>,
                    !.members = <<1>>, !.pos = 1, !.stepi = 1,
                    !.items = fn_out.items, !.class_map = fn_out.class_map]

\* The loop body for the message: whether sync_email is called and with
\* what, and the synced flag and Stage-2 category handed to mark_processed.
SectionLoop ==
    /\ fn_out.pc = "analysed"
    /\ fn_out' = [fn_out EXCEPT
                    !.pc = "done",
                    !.sync = WantsSync(SectionRun),
                    !.args = [ category     |-> SyncArgs(SectionRun).category,
                               importance   |-> SyncArgs(SectionRun).importance,
                               needs_action |-> SyncArgs(SectionRun).needs_action ],
                    !.synced = MarkArgs(SectionRun).synced,
                    !.stage2_category = MarkArgs(SectionRun).stage2_category,
                    !.func = should_sync_to_emails_db(
                                 process_stage2_results(fn_out.email, fn_out.class_map[1],
                                                        fn_out.items, 1))]
    /\ UNCHANGED <<fn_in, ruleVars, markerVars, stage1Vars, runVars>>

SectionNext == SectionAnalyze \/ SectionLoop
SpecSection == SectionInit /\ [][SectionNext]_vars

\* The answer of the message carries an item flagged is_published_spam and
\* _analyze_single_email returned it.
SpamFlagged == Returned(fn_in.ans) /\ fn_in.ans.item.type /= "none"
                 /\ fn_in.ans.item.is_published_spam

\* C31: for a message of the Stage-2 section whose item has
\* is_published_spam = true, neither check_and_process nor
\* process_stage2_results with should_sync_to_emails_db decides to sync the
\* message, and mark_processed is called with synced = false, whatever the
\* category of the classification.
C31_SpamOverrideSurvives ==
    (fn_out.pc = "done" /\ fn_in.email.s1cat = "PAPER" /\ SpamFlagged) =>
        /\ ~fn_out.sync
        /\ ~fn_out.func[1]
        /\ ~fn_out.synced

\* The override does survive when the classification names no category.
SpamOverrideWithoutClassCategory ==
    (fn_out.pc = "done" /\ fn_in.email.s1cat = "PAPER" /\ SpamFlagged
        /\ fn_out.class_map[1] = Absent) =>
        ~fn_out.sync /\ ~fn_out.func[1] /\ ~fn_out.synced

\* Stage 2 left the field out: no answer was returned, or it has no
\* classification, or the classification lacks the key.
OmitsImportance ==
    ~Returned(fn_in.ans) \/ ~fn_in.ans.has_cls \/ fn_in.ans.importance = NoneInt
OmitsNeedsAction ==
    ~Returned(fn_in.ans) \/ ~fn_in.ans.has_cls \/ fn_in.ans.needs_action = Absent

\* C32: a message of Stage-1 category EXAM is handed to sync_email with
\* importance 5 when Stage 2 returned no importance, and with
\* needs_action = true when Stage 2 returned no needs_action.
C32_ExamDefaultsKept ==
    (fn_out.pc = "done" /\ fn_in.email.s1cat = "EXAM") =>
        /\ fn_out.sync /\ fn_out.args.category = "zh_kaoshi"
        /\ OmitsImportance => fn_out.args.importance = 5
        /\ OmitsNeedsAction => fn_out.args.needs_action

\* The defaults do apply when the analysis of the message returned nothing.
ExamDefaultsWithoutAnswer ==
    (fn_out.pc = "done" /\ fn_in.email.s1cat = "EXAM" /\ ~fn_in.ans.ok) =>
        /\ fn_out.args.importance = 5
        /\ fn_out.args.needs_action

\* C36: a message of the Stage-2 section whose classification names the
\* category TRASH or Trash/Published is not handed to sync_email, by
\* check_and_process or by should_sync_to_emails_db, and mark_processed is
\* called with synced = false, also when needs_action is true.
C36_Stage2TrashNeverSynced ==
    (fn_out.pc = "done" /\ fn_in.email.s1cat = "PAPER" /\ Returned(fn_in.ans)
        /\ fn_in.ans.has_cls /\ fn_in.ans.category \in {"TRASH", "Trash/Published"}) =>
        /\ ~fn_out.sync
        /\ ~fn_out.func[1]
        /\ ~fn_out.synced

\* For the spelling Trash/Published it holds.
MixedCaseTrashNeverSynced ==
    (fn_out.pc = "done" /\ fn_in.email.s1cat = "PAPER" /\ Returned(fn_in.ans)
        /\ fn_in.ans.has_cls /\ fn_in.ans.category = "Trash/Published") =>
        ~fn_out.sync /\ ~fn_out.func[1] /\ ~fn_out.synced

\* C33: when a run returns, every message it marked whose marker has
\* marked_read = 1 had a mark_as_read request issued for it in that run.
C33_MarkedReadWasRequested ==
    [][RunReturns =>
          \A m \in trace'.marked :
              (\E row \in markers' : row.message_id = msg_ids[m] /\ row.marked_read = 1)
                  => m \in trace'.read]_vars

\* The same for the runs that hold no two PERSONAL messages.
MarkedReadWasRequestedButPersonal ==
    [][(RunReturns /\ Len(group_emails_by_category(run.new_emails, "PERSONAL")) < 2) =>
          \A m \in trace'.marked :
              (\E row \in markers' : row.message_id = msg_ids[m] /\ row.marked_read = 1)
                  => m \in trace'.read]_vars

\* C34: the marker a run writes for a message has synced_to_notion = 1 only
\* if a summary page of the message was created in the run and sync_email
\* returned success for it; a message without a summary sync, or with a
\* failed one, gets synced_to_notion = 0.
C34_SyncedFlagAgreesWithStore ==
    trace.op = "mark" =>
        \A m \in trace.msgs :
            \A row \in MarkerRows(m) :
                row.synced_to_notion = 1 <=>
                    (m \in trace.summarised /\ m \notin trace.sync_failed)

\* One direction holds: a message whose summary sync returned success is
\* marked with synced_to_notion = 1.
SyncedSummaryMarkedSynced ==
    trace.op = "mark" =>
        \A m \in trace.msgs :
            (m \in trace.summarised /\ m \notin trace.sync_failed) =>
                \A row \in MarkerRows(m) : row.synced_to_notion = 1

(***************************************************************************)
(* SpecPapers: sequences of sync_paper calls whose remote requests are all *)
(* answered, on a papers store that starts empty                           *)
(***************************************************************************)
MaxPaperCalls == 3

\* Items of two papers (titles of 1 and of 51 characters): each with the
\* manuscript id, without one, and the first also under a second id.
PapersItems ==
    { PaperItem(1),
      [PaperItem(1) EXCEPT !.manuscript_id = <<>>, !.status = <<"Major Revision">>],
      [PaperItem(1) EXCEPT !.manuscript_id = <<"TGRS-2024-9999">>],
      PaperItem(2),
      [PaperItem(2) EXCEPT !.manuscript_id = <<"CVPR-2024-77">>] }

AnsweredIo == [db_ok |-> TRUE, query |-> <<"ok">>, write |-> <<"ok">>]

PapersInit ==
    /\ RuleIdle /\ MarkerIdle /\ Stage1Idle /\ RunIdle
    /\ fn_in = [kind |-> "none", item |-> NoItem, io |-> AnsweredIo]
    /\ fn_out = [calls |-> 0, op |-> "none", ok |-> FALSE, before |-> <<>>]

\* One sync_paper call, every request of it answered 200.
SyncPaperAnswered ==
    /\ fn_out.calls < MaxPaperCalls
    /\ \E paper \in PapersItems :
         LET res == sync_paper(papers, paper, AnsweredIo)
         IN  /\ papers' = res.pages
             /\ NotionCall("paper", paper, AnsweredIo, papers, res)
    /\ UNCHANGED <<ruleVars, markerVars, stage1Vars, unread, msg_ids, msg_from, reviews, bills,
                   summaries, localVars, llmVars, run, run_no, crashes, trace>>

PapersNext == SyncPaperAnswered
SpecPapers == PapersInit /\ [][PapersNext]_vars

\* C35: the papers store never holds two records with the same non-empty
\* manuscript id, nor two records whose titles agree in their first 50
\* characters.
C35_OneRecordPerPaper ==
    \A i \in 1..Len(papers) : \A j \in 1..Len(papers) :
        i < j =>
            /\ ~(papers[i].manuscript_id /= <<>>
                   /\ papers[i].manuscript_id = papers[j].manuscript_id)
            /\ Take(papers[i].title, 50) /= Take(papers[j].title, 50)

\* What holds: no two records with the same non-empty manuscript id, and no
\* two records without manuscript id with the same title prefix.
OneRecordPerKey ==
    \A i \in 1..Len(papers) : \A j \in 1..Len(papers) :
        i < j => RecordKey(papers[i]) /= RecordKey(papers[j])

\* An item without manuscript id that follows a record of its title without
\* manuscript id, or an item with one that follows such a record, adds none.
TitleFoundWhenRecordHasNoId ==
    (fn_out.calls > 0
        /\ \E k \in 1..Len(fn_out.before) :
              /\ fn_out.before[k].manuscript_id = <<>>
              /\ Take(fn_out.before[k].title, 50) = Take(fn_in.item.title, 50))
        => fn_out.op = "PATCH" /\ Len(papers) = Len(fn_out.before)

(***************************************************************************)
(* SpecBillingSection: the billing section of check_and_process on a run   *)
(* with up to MaxBillingEmails messages of Stage-1 category BILLING        *)
(***************************************************************************)
MaxBillingEmails == 11

\* emails[:10] in parse_billing_emails.
billing_prompt_size == 10

\* parse_billing_emails: the messages whose subject, sender, date and body
\* are put in the prompt.
billing_prompt(emails) ==
    SubSeq(emails, 1, IF Len(emails) < billing_prompt_size THEN Len(emails)
                      ELSE billing_prompt_size)

BillingSectionInit ==
    /\ RuleIdle /\ MarkerIdle /\ Stage1Idle /\ RunIdle
    /\ \E n \in 0..MaxBillingEmails : fn_in = [k \in 1..n |-> k]
    /\ fn_out = [pc |-> "parse", prompted |-> {}, pos |-> 0, marked |-> {},
                 summarised |-> {}, last_ok |-> FALSE]

\* if billing_emails: parse_billing_emails(billing_emails).
BillingSectionParse ==
    /\ fn_out.pc = "parse"
    /\ fn_out' = IF fn_in = <<>> THEN [fn_out EXCEPT !.pc = "done"]
                 ELSE [fn_out EXCEPT
                         !.pc = "loop", !.pos = 1,
                         !.prompted = {billing_prompt(fn_in)[k] :
                                          k \in 1..Len(billing_prompt(fn_in))}]
    /\ UNCHANGED <<fn_in, ruleVars, markerVars, stage1Vars, runVars>>

\* The loop body for one billing message: sync_email, mark_processed,
\* mark_as_read.
BillingSectionMessage ==
    /\ fn_out.pc = "loop"
    /\ \E ok \in BOOLEAN :
         fn_out' = [fn_out EXCEPT
                      !.pc = IF fn_out.pos = Len(fn_in) THEN "done" ELSE "loop",
                      !.pos = fn_out.pos + 1,
                      !.last_ok = ok,
                      !.summarised = IF ok THEN fn_out.summarised \cup {fn_in[fn_out.pos]}
                                     ELSE fn_out.summarised,
                      !.marked = fn_out.marked \cup {fn_in[fn_out.pos]}]
    /\ UNCHANGED <<fn_in, ruleVars, markerVars, stage1Vars, runVars>>

BillingSectionNext == BillingSectionParse \/ BillingSectionMessage
SpecBillingSection == BillingSectionInit /\ [][BillingSectionNext]_vars

\* C37: every billing message the section marks as processed, and every one
\* it writes a summary for, was in the prompt of parse_billing_emails.
C37_MarkedBillingWasParsed ==
    /\ fn_out.marked \subseteq fn_out.prompted
    /\ fn_out.summarised \subseteq fn_out.prompted

\* It holds of the runs with at most ten billing messages.
MarkedBillingWasParsedUpToTen ==
    Len(fn_in) <= billing_prompt_size =>
        /\ fn_out.marked \subseteq fn_out.prompted
        /\ fn_out.summarised \subseteq fn_out.prompted

\* C38: one call of sync_email leaves at most one summary page in the
\* store, whatever the attempts of its request came to.
C38_OneSummaryPerCall ==
    (fn_in = "sync_email" /\ fn_out.reported /= "none") => Len(summaries) <= 1

\* The call leaves one page for each attempt the store carried out; when no
\* attempt was carried out with its answer lost, that is at most one.
OnePagePerPerformedAttempt ==
    (fn_in = "sync_email" /\ fn_out.reported /= "none") =>
        /\ Len(summaries) = TimesPerformed(fn_out.log)
        /\ (\A k \in 1..Len(fn_out.log) : fn_out.log[k] /= "lost") => Len(summaries) <= 1

(***************************************************************************)
(* SpecBillingStore: sequences of BillingProcessor.process calls on a      *)
(* local billing store that starts empty                                   *)
(***************************************************************************)
MaxBillingCalls == 3

\* Bills of two accounts: the card bill, the same under another type, with
\* another amount and status, for another period, without period; and a
\* subscription.
StoreBills ==
    { CardBill,
      [CardBill EXCEPT !.type = "other"],
      [CardBill EXCEPT !.amount = 150, !.status = "paid"],
      [CardBill EXCEPT !.period = "2026-02"],
      [CardBill EXCEPT !.period = ""],
      [CardBill EXCEPT !.name = "zh_netflix", !.type = "membership"] }

BillingStoreInit ==
    /\ RuleIdle /\ MarkerIdle /\ Stage1Idle
    /\ unread = {} /\ msg_ids = <<>> /\ msg_from = <<>>
    /\ papers = <<>> /\ reviews = <<>> /\ bills = <<>> /\ summaries = <<>>
    /\ local_items = {} /\ local_records = {}
    /\ llm_s1 = <<>> /\ llm_s2 = <<>> /\ llm_bill = [asked |-> FALSE, items |-> <<>>]
    /\ run = IdleRun /\ run_no = 0 /\ crashes = 0
    /\ trace = NoTrace
    /\ fn_in = CardBill
    /\ fn_out = [calls |-> 0, items_before |-> {}, records_before |-> {}]

\* BillingProcessor.process([item]).
ProcessBill ==
    /\ fn_out.calls < MaxBillingCalls
    /\ \E item \in StoreBills, io \in UpsertIo :
         LET res == billing_iteration(local_items, local_records, bills, <<item, {}>>, io)
         IN  /\ local_items' = res.items
             /\ local_records' = res.records
             /\ bills' = res.pages
             /\ fn_in' = item
             /\ fn_out' = [calls |-> fn_out.calls + 1, items_before |-> local_items,
                           records_before |-> local_records]
    /\ UNCHANGED <<ruleVars, markerVars, stage1Vars, unread, msg_ids, msg_from, papers, reviews,
                   summaries, llmVars, run, run_no, crashes, trace>>

BillingStoreNext == ProcessBill
SpecBillingStore == BillingStoreInit /\ [][BillingStoreNext]_vars

\* C39: the local billing store holds at most one item per name and at most
\* one record per item and period; a process call for a name the store
\* already has leaves that item's name and type as they were, adds no item,
\* and files its record under that item; no call removes an item.
C39_OneItemPerNameOneRecordPerPeriod ==
    /\ \A a \in local_items : \A b \in local_items : a.name = b.name => a = b
    /\ \A a \in local_records : \A b \in local_records :
          (a.item_id = b.item_id /\ a.period = b.period) => a = b
    /\ \A old \in fn_out.items_before :
          \E it \in local_items : it.name = old.name /\ it.type = old.type
    /\ (\E old \in fn_out.items_before : old.name = fn_in.name) =>
          Cardinality(local_items) = Cardinality(fn_out.items_before)
    /\ \A rec \in local_records : \E it \in local_items : it.name = rec.item_id

\* Three calls for the card under two types and two amounts of one period
\* have left one item, of the first type, and one record, of the last amount.
C39_Witness ==
    /\ fn_out.calls = 3
    /\ fn_in = [CardBill EXCEPT !.amount = 150, !.status = "paid"]
    /\ \E old \in fn_out.items_before : old.name = fn_in.name /\ old.type = "other"
    /\ Cardinality(local_items) = 1
    /\ \A it \in local_items : it.type = "other"
    /\ Cardinality(local_records) = 1
    /\ \E old \in fn_out.records_before : old.amount = 100
    /\ \A rec \in local_records : rec.amount = 150 /\ rec.status = "paid"

\* ---------------------------------------------------------------------
\* The daily report of run_forever (scheduler/watcher.py).  Every
\* iteration of the loop asks _should_send_daily_report, calls
\* _send_daily_report when it says yes, then runs check_and_process and
\* sleeps.  The clock is what datetime.now() and date.today() return: a
\* day number and a reading of hour and minute.  It never goes back.

DAILY_REPORT_HOUR == 14
DAILY_REPORT_MINUTE == 0

MaxDay == 2
MaxLoopIterations == 5

\* The readings of one day the iterations can fall on, in order: before the
\* hour of the report with a minute under ten, the minute before the
\* window, its first and last minute, the minute after it, the next hour
\* with a minute under ten.
ClockReadings == << [hour |-> 2, minute |-> 5], [hour |-> 13, minute |-> 59], [hour |-> 14, minute |-> 0], [hour |-> 14, minute |-> 9], [hour |-> 14, minute |-> 10], [hour |-> 15, minute |-> 3] >>

\* What _send_daily_report meets: send_silent returns True, send_silent
\* returns False, or get_stats raises before anything is sent.
SendResults == {"sent", "failed", "raised"}

\* _should_send_daily_report without the comparison with the date of the
\* last report.
should_send_daily_report_nolast(last, today, now) ==
    IF now.hour = DAILY_REPORT_HOUR /\ now.minute < DAILY_REPORT_MINUTE + 10 THEN TRUE
    ELSE FALSE

\* _should_send_daily_report with self._last_daily_report_date = last
\* (NoneInt for None).
should_send_daily_report(last, today, now) ==
    IF last = today THEN FALSE
    ELSE IF now.hour = DAILY_REPORT_HOUR /\ now.minute < DAILY_REPORT_MINUTE + 10 THEN TRUE
    ELSE FALSE

\* _send_daily_report: the value of self._last_daily_report_date after it.
send_daily_report(last, today, enabled, result) ==
    IF ~enabled THEN last
    ELSE IF result = "sent" THEN today
    ELSE last

\* fn_in is IMESSAGE_ENABLED, the clock and the number of iterations so far.
\* fn_out is self._last_daily_report_date and the history: attempts are the
\* calls of send_silent for a report, skipped the days on which an iteration
\* inside the window found the report of the day sent, disabled the days on
\* which _send_daily_report returned at once.
DailyInit ==
    /\ RuleIdle /\ MarkerIdle /\ Stage1Idle /\ RunIdle
    /\ \E enabled \in BOOLEAN, r \in DOMAIN ClockReadings :
         fn_in = [enabled |-> enabled, day |-> 1, reading |-> r, iter |-> 0]
    /\ fn_out = [last |-> NoneInt, attempts |-> <<>>, skipped |-> {}, disabled |-> {}]

\* One iteration of the loop of run_forever.  An exception of the report is
\* caught by the handler of the loop, which skips check_and_process; the
\* sleep follows in every case, and the clock is then at the same reading or
\* at a later one.
DailyIteration ==
    /\ fn_in.iter < MaxLoopIterations
    /\ LET today == fn_in.day
           now == ClockReadings[fn_in.reading]
           should == should_send_daily_report(fn_out.last, today, now)
           inwindow == now.hour = DAILY_REPORT_HOUR /\ now.minute < DAILY_REPORT_MINUTE + 10
       IN  IF should /\ fn_in.enabled
           THEN \E result \in SendResults :
                  fn_out' = [fn_out EXCEPT
                               !.last = send_daily_report(fn_out.last, today, TRUE, result),
                               !.attempts = IF result = "raised" THEN @
                                            ELSE Append(@, [day |-> today, hour |-> now.hour,
                                                            minute |-> now.minute, result |-> result])]
           ELSE fn_out' = [fn_out EXCEPT
                             !.last = IF should
                                      THEN send_daily_report(fn_out.last, today, FALSE, "sent")
                                      ELSE @,
                             !.skipped = IF inwindow /\ ~should THEN @ \cup {today} ELSE @,
                             !.disabled = IF should THEN @ \cup {today} ELSE @]
    /\ \E d \in fn_in.day..MaxDay, r \in DOMAIN ClockReadings :
         /\ d = fn_in.day => r >= fn_in.reading
         /\ fn_in' = [fn_in EXCEPT !.day = d, !.reading = r, !.iter = @ + 1]
    /\ UNCHANGED <<ruleVars, markerVars, stage1Vars, runVars>>

DailyNext == DailyIteration
SpecDaily == DailyInit /\ [][DailyNext]_vars

SentAttempts == {i \in DOMAIN fn_out.attempts : fn_out.attempts[i].result = "sent"}

====
